---- MODULE Spec2Model ----
(***************************************************************************)
(* purrcat: a WebSocket client with auto-reconnect, bounded buffers and    *)
(* async-iterable consumption.  The model follows the handler classes      *)
(* (ConnectionHandler, MessageHandler, EventHandler), the generators and   *)
(* the helpers of utils.ts.  Every action is one JavaScript macrotask: a   *)
(* user call or a transport/timer callback, together with the microtasks   *)
(* (resumed generators) it leaves behind.                                  *)
(***************************************************************************)
EXTENDS Integers, Sequences, FiniteSets, TLC

\* ---------------------------------------------------------------- bounds
MaxCap == 2          \* largest configured buffer / queue capacity
MaxAttempts == 2     \* largest configured reconnect.attempts
MaxCtor == 4         \* WebSocket constructor calls explored
MaxRecv == 4         \* inbound frames explored
MaxSend == 3         \* send() calls explored
MaxConn == 1         \* connect() calls by the user explored
MaxErr == 1          \* transport error hooks explored
MaxIter == 2         \* generators of a kind alive at a time
MaxCb == 2           \* callbacks of a kind
MaxCtl == 1          \* AbortControllers installed in state.abortController
MaxWait == 3         \* waitForItems calls explored on one collection
MaxItems == 2        \* items in that collection
MaxInput == 2        \* items of the sequence handed to sendMessages / receiveMessages
MaxTry == 3          \* largest reconnectCount below the overflow of Math.pow
MaxBase == 2         \* largest reconnect.interval, in ms
MaxLimit == 3        \* largest reconnect.maxInterval, in ms
JitterSteps == 2     \* Math.random() takes the values r / (2 * JitterSteps)
MaxEv == 12          \* inbound frames explored with events() generators

\* ------------------------------------------------------ program constants
MAX_RECENT_EVENTS == 10
CONNECTING == 0
OPEN == 1
CLOSING == 2
CLOSED == 3
JITTER_DEN == 5                  \* RECONNECT_JITTER_RATIO = 0.2 = 1 / JITTER_DEN
PowOverflow == 1024              \* Math.pow(2, n) is Infinity from n = 1024 on

Undefined == "undefined"
Payloads == {"msg0", "msg1", "msg2", "msg3", "msg4", "msg5"}
Policies == {"oldest", "newest", "error"}
CloseArgs == {[code |-> 1000, reason |-> "bye"], [code |-> -1, reason |-> Undefined]}
Iters == 1..MaxIter
Callbacks == 1..MaxCb
Outgoing == <<"msg1", "msg2", "msg3", "msg4", "msg5">>
Out(n) == Outgoing[(n % Len(Outgoing)) + 1]
Throwers == {1}                  \* the callbacks that throw whenever they are called
Builds == {"waitForItems", "polling"}
TimerIds == 1..(2 * MaxCtor)     \* every close hook and every failed constructor arms at most one

VARIABLES
    opts,                   \* NormalizedSocketOptions
    ws,                     \* state.ws: index of the current transport, 0 = null
    socks,                  \* the transports constructed so far
    ctorCalls,              \* number of `new WebSocket` calls, throwing ones included
    isManualClose,
    reconnectCount,
    reconnectTimer,         \* state.reconnectTimer: a timer handle, 0 = null
    timers,                 \* handles of the timeouts that are still pending
    timerSeq,               \* last handle returned by setTimeout
    abortController,        \* state.abortController: index of an AbortController, 0 = null
    controllers,            \* signal.aborted of every AbortController installed so far
    pump,                   \* the sendMessages / receiveMessages call: which of the two, its
                            \* input (len items, then the end or an exception), how many items
                            \* it has pulled, its AbortSignal, the state of its promise, and
                            \* the items it has passed to send / receive
    calc,                   \* the last call of calculateReconnectInterval: its arguments, the
                            \* value Math.random() returned and the result
    wait,                   \* waitForItems on its own: the AbortSignal (aborted, listeners), the
                            \* number of items in the collection, the Set of resolvers, the
                            \* locals of every call (resolved, checkInterval, and how often its
                            \* promise's resolve was called) and the pending poll timeouts
    messageBuffer,
    messageQueue,
    eventQueue,
    activeMessageIterators,
    activeEventIterators,
    messageResolvers,       \* Set<resolve>, in insertion order
    eventResolvers,
    messageCallbacks,       \* Set<callback>, in insertion order
    eventCallbacks,
    epc, esig, eout,        \* the events() generators: position, AbortSignal, last value yielded
    ehist,                  \* events() generators: as mhist, for eventQueue; and for the last
                            \* generator started with none active, as long as no other has
                            \* started: eventQueue at its start, the events it has yielded and
                            \* the events pushed since
    esync,                  \* eventQueue and eventResolvers as the emit() calls of the last
                            \* macrotask left them, and the resolvers they invoked, before any
                            \* generator resumed
    mcbGot,                 \* what the last receive() handed to each message callback
    ecbGot,                 \* what the last macrotask's emit() calls handed to each event callback
    unsub,                  \* the callbacks whose unsubscribe closure has been called
    mpc,                    \* position of each messages() generator
    msig,                   \* its AbortSignal: "none", "live" or "aborted"
    mout,                   \* the value it yielded last
    mhist,                  \* messages() generators: how many were started, how many items at
                            \* the head of messageBuffer were received before the active count
                            \* last fell to 0, whether such an item was ever yielded, the raw
                            \* payloads yielded so far (as a set and in order), the payloads
                            \* pushed to messageBuffer and those shifted out by drop_oldest
    emitted,                \* events emitted by the last macrotask, in order
    threw,                  \* the last macrotask raised to its caller
    lastOp,                 \* the last macrotask
    arrivals,               \* raw payloads received since the buffer was last drained or cleared
    nRecv, nSend, nErr,     \* frames, send() calls and error hooks so far
    hist,                   \* what has happened so far: user connect() calls, abnormal closures,
                            \* whether an open hook reset a non-zero reconnectCount, ctorCalls at
                            \* the first close() (-1 before it), user connect() after close(),
                            \* whether a constructor threw, the attempt announced when each
                            \* timer was armed
    lim                     \* how many constructor calls, user connect() calls, frames, sends,
                            \* error hooks, generator slots and generator starts are explored;
                            \* and what the user's callbacks do: event callback lim.cb calls
                            \* send() when it is handed an open event (lim.on = "open") or
                            \* close() when it is handed the reconnect event of a firing
                            \* retry timer, the one without an interval ("reconnect")

connVars == <<ws, socks, ctorCalls, isManualClose, reconnectCount, reconnectTimer, timers, timerSeq>>
msgVars == <<messageBuffer, activeMessageIterators, messageResolvers, mpc, msig, mout, arrivals,
            mhist>>
evVars == <<eventQueue, activeEventIterators, eventResolvers, epc, eout, ehist, esync, ecbGot>>
cbVars == <<messageCallbacks, eventCallbacks, mcbGot, unsub, esig>>
abortVars == <<abortController, controllers>>
histVars == <<emitted, threw, lastOp, nRecv, nSend, nErr, hist>>
vars == <<opts, lim, calc, pump, wait, abortVars, connVars, msgVars, evVars, cbVars, messageQueue, histVars>>

\* ---------------------------------------------------------------- events
NoMeta ==
    [message |-> Undefined, reason |-> Undefined, code |-> -1, wasClean |-> FALSE,
     attempt |-> 0, hasInterval |-> FALSE, policy |-> Undefined,
     bufferSize |-> -1, bufferType |-> Undefined]

createEvent(type, meta) == [type |-> type, meta |-> meta]

createDroppedEvent(reason, policy, droppedMessage, bufferSize, bufferType) ==
    createEvent("dropped",
        [NoMeta EXCEPT !.reason = reason, !.policy = policy, !.message = droppedMessage,
                       !.bufferSize = bufferSize, !.bufferType = bufferType])

Op(name, id, arg) == [op |-> name, id |-> id, arg |-> arg]

\* ----------------------------------------------------------- pure helpers
\* JavaScript values are named by strings: the strings themselves, one plain
\* object and one ArrayBuffer.  JsonA is the JSON text of ObjectA.
ObjectA == "{type: 'ping'}"
JsonA == "{\"type\":\"ping\"}"
BinaryA == "ArrayBuffer(8)"

typeOf(v) == IF v \in {ObjectA, BinaryA} THEN "object" ELSE "string"
isBinary(v) == v = BinaryA                 \* instanceof ArrayBuffer / Blob
JSONstringify(v) == IF v = ObjectA THEN JsonA ELSE v
JSONparses(text) == text = JsonA
JSONparse(text) == IF text = JsonA THEN ObjectA ELSE text
String(v) ==
    IF v = BinaryA THEN "[object ArrayBuffer]"
    ELSE IF v = ObjectA THEN "[object Object]"
    ELSE v

\* utils.ts parseMessage: JSON.parse, falling back to the raw string.
parseMessage(data) == IF JSONparses(data) THEN JSONparse(data) ELSE data

\* utils.ts serializeMessage: objects other than ArrayBuffer and Blob become
\* their JSON text, everything else passes through.
serializeMessage(data) ==
    IF typeOf(data) = "object" /\ ~isBinary(data) THEN JSONstringify(data) ELSE data

\* handleBufferOverflow with the capacity test off by one (<= for <).
handleBufferOverflow_OffByOne(policy, buffer, newItem, bufferSize) ==
    IF Len(buffer) <= bufferSize
    THEN [action |-> "add", dropped |-> Undefined, buffer |-> buffer]
    ELSE IF policy = "oldest"
    THEN [action |-> "drop_oldest",
          dropped |-> IF buffer = <<>> THEN Undefined ELSE Head(buffer),
          buffer |-> IF buffer = <<>> THEN <<>> ELSE Tail(buffer)]
    ELSE IF policy = "newest"
    THEN [action |-> "drop_newest", dropped |-> newItem, buffer |-> buffer]
    ELSE [action |-> "error", dropped |-> Undefined, buffer |-> buffer]

\* handleBufferOverflow evicting with pop() instead of shift().
handleBufferOverflow_Pop(policy, buffer, newItem, bufferSize) ==
    IF Len(buffer) < bufferSize
    THEN [action |-> "add", dropped |-> Undefined, buffer |-> buffer]
    ELSE IF policy = "oldest"
    THEN [action |-> "drop_oldest",
          dropped |-> IF buffer = <<>> THEN Undefined ELSE buffer[Len(buffer)],
          buffer |-> IF buffer = <<>> THEN <<>> ELSE SubSeq(buffer, 1, Len(buffer) - 1)]
    ELSE IF policy = "newest"
    THEN [action |-> "drop_newest", dropped |-> newItem, buffer |-> buffer]
    ELSE [action |-> "error", dropped |-> Undefined, buffer |-> buffer]

\* utils.ts handleBufferOverflow.  Array.shift() mutates the caller's buffer,
\* so the buffer is part of the result; shift() of [] yields undefined.
handleBufferOverflow(policy, buffer, newItem, bufferSize) ==
    IF Len(buffer) < bufferSize
    THEN [action |-> "add", dropped |-> Undefined, buffer |-> buffer]
    ELSE IF policy = "oldest"
    THEN [action |-> "drop_oldest",
          dropped |-> IF buffer = <<>> THEN Undefined ELSE Head(buffer),
          buffer |-> IF buffer = <<>> THEN <<>> ELSE Tail(buffer)]
    ELSE IF policy = "newest"
    THEN [action |-> "drop_newest", dropped |-> newItem, buffer |-> buffer]
    ELSE [action |-> "error", dropped |-> Undefined, buffer |-> buffer]

\* emit keeping the sliding window of MAX_RECENT_EVENTS also while an events()
\* generator is active.
emit_AlwaysCapped(queue, active, event) ==
    LET q == Append(queue, event)
    IN  IF Len(q) > MAX_RECENT_EVENTS THEN Tail(q) ELSE q

\* EventHandler.emit, the queue part: unbounded while an events() generator is
\* active, otherwise a sliding window of MAX_RECENT_EVENTS.
emit(queue, active, event) ==
    IF active > 0
    THEN Append(queue, event)
    ELSE LET q == Append(queue, event)
         IN  IF Len(q) > MAX_RECENT_EVENTS THEN Tail(q) ELSE q

RECURSIVE emitAll(_, _, _)
emitAll(queue, active, events) ==
    IF events = <<>> THEN queue
    ELSE emitAll(emit(queue, active, Head(events)), active, Tail(events))

\* EventHandler.emit, the callback part: forEach over eventCallbacks, every
\* call in its own try/catch (an exception is logged and dropped).  got is
\* what each callback has been handed so far.
RECURSIVE emitCallbacks(_, _, _)
emitCallbacks(cbs, event, got) ==
    IF cbs = <<>> THEN [got |-> got, threw |-> FALSE]
    ELSE LET c == Head(cbs)
             g == [got EXCEPT ![c] = Append(@, event)]
         IN  IF c \in Throwers
             THEN emitCallbacks(Tail(cbs), event, g)
             ELSE emitCallbacks(Tail(cbs), event, g)

\* The callback part of consecutive emit() calls; done counts the calls that
\* returned to their caller.
RECURSIVE emitCallbacksAll(_, _, _, _)
emitCallbacksAll(cbs, events, got, done) ==
    IF events = <<>> THEN [got |-> got, done |-> done]
    ELSE LET r == emitCallbacks(cbs, Head(events), got)
         IN  IF r.threw THEN [got |-> r.got, done |-> done]
             ELSE emitCallbacksAll(cbs, Tail(events), r.got, done + 1)

NoneGot == [c \in Callbacks |-> <<>>]

\* ------------------------------------------- calculateReconnectInterval
\* JavaScript numbers: a finite number is num / Den, the others are Infinity,
\* -Infinity and NaN.  The arithmetic below is exact on the finite numbers
\* explored, where every quotient is an integer.
Den == 2 * JITTER_DEN * JitterSteps
Fin(n) == [kind |-> "finite", num |-> n]
Number(n) == Fin(n * Den)
Infinity == [kind |-> "infinity", num |-> 1]
NegInfinity == [kind |-> "infinity", num |-> -1]
NaN == [kind |-> "NaN", num |-> 0]
Sign(x) == IF x.num > 0 THEN 1 ELSE IF x.num < 0 THEN -1 ELSE 0

\* x * y
Times(x, y) ==
    IF x.kind = "NaN" \/ y.kind = "NaN" THEN NaN
    ELSE IF x.kind = "finite" /\ y.kind = "finite" THEN Fin((x.num * y.num) \div Den)
    ELSE IF Sign(x) * Sign(y) = 0 THEN NaN
    ELSE IF Sign(x) * Sign(y) > 0 THEN Infinity ELSE NegInfinity

\* x + y
Plus(x, y) ==
    IF x.kind = "NaN" \/ y.kind = "NaN" THEN NaN
    ELSE IF x.kind = "finite" /\ y.kind = "finite" THEN Fin(x.num + y.num)
    ELSE IF x.kind = "finite" THEN y
    ELSE IF y.kind = "finite" THEN x
    ELSE IF x = y THEN x ELSE NaN

\* x <= y, false when either is NaN
Leq(x, y) ==
    /\ x.kind # "NaN" /\ y.kind # "NaN"
    /\ IF x.kind = "finite" /\ y.kind = "finite" THEN x.num <= y.num
       ELSE IF x.kind = "infinity" THEN x.num < 0 \/ x = y
       ELSE y.num > 0

MathMin(x, y) ==
    IF x.kind = "NaN" \/ y.kind = "NaN" THEN NaN ELSE IF Leq(x, y) THEN x ELSE y

MathMax(x, y) ==
    IF x.kind = "NaN" \/ y.kind = "NaN" THEN NaN ELSE IF Leq(x, y) THEN y ELSE x

MathPow2(n) == IF n >= PowOverflow THEN Infinity ELSE Number(2 ^ n)

\* The values of Math.random(): r / (2 * JitterSteps), never 1.
Randoms == 0..(2 * JitterSteps - 1)
MathRandom(r) == Fin(r * JITTER_DEN)
RECONNECT_JITTER_RATIO == Fin(Den \div JITTER_DEN)

\* `random` is what the call of Math.random() returns.
calculateReconnectInterval(attempt, baseInterval, backoff, maxInterval, random) ==
    LET interval == IF backoff = "exponential"
                    THEN Times(baseInterval, MathPow2(attempt))
                    ELSE Times(baseInterval, Number(attempt + 1))
        jitter == Times(Times(interval, RECONNECT_JITTER_RATIO),
                        Plus(Times(MathRandom(random), Number(2)), Number(-1)))
        capped == MathMin(Plus(interval, jitter), maxInterval)
    IN  MathMax(Number(0), MathMin(capped, maxInterval))

NoCalc == [attempt |-> 0, base |-> 0, backoff |-> "none", cap |-> 0, random |-> 0,
           interval |-> Number(0)]

\* The reconnect counts explored: the first ones and one past the overflow.
Attempts == 0..MaxTry \cup {PowOverflow}
Backoffs == {"exponential", "linear"}

\* One call, with reconnectCount, reconnect.interval, reconnect.backoff and
\* reconnect.maxInterval as scheduleReconnect passes them.
CalculateReconnectInterval(attempt, base, backoff, cap, random) ==
    /\ calc' = [attempt |-> attempt, base |-> base, backoff |-> backoff, cap |-> cap,
                random |-> random,
                interval |-> calculateReconnectInterval(attempt, Number(base), backoff,
                                                        Number(cap), random)]
    /\ UNCHANGED <<opts, lim, pump, wait, abortVars, connVars, msgVars, evVars, cbVars,
                   messageQueue, histVars>>

\* ---------------------------------------------------------- waitForItems
\* A Set of resolvers holds the doResolve of the wait generator i is blocked
\* in as i, and a doResolve whose wait has been resolved as -i: such a call
\* returns at its first line.
Live(res) == SelectSeq(res, LAMBDA r : r > 0)

\* The abort listener of a wait that removes its resolver from the Set.
abortHandler_Cleanup(res, i) == SelectSeq(res, LAMBDA r : r # i)

\* abortHandler -> doResolve of the wait of generator i: resolved = true, then
\* cleanup(), which returns at its first line because resolved is true already:
\* the resolver stays in the Set.
abortHandler(res, i) == [k \in 1..Len(res) |-> IF res[k] = i THEN 0 - i ELSE res[k]]

\* waitForItems(signal, hasItems, resolvers, addResolver, removeResolver) on its
\* own, over w = [aborted, listeners, items, resolvers, calls, timeouts]; call
\* k has the locals calls[k] = [signal, resolved, checkInterval, settled].
hasItems(w) == w.items > 0

Without(seq, k) == SelectSeq(seq, LAMBDA x : x # k)

cleanup(w, k) ==
    IF w.calls[k].resolved THEN w
    ELSE [w EXCEPT !.listeners = IF w.calls[k].signal THEN Without(@, k) ELSE @,
                   !.resolvers = Without(@, k),
                   !.timeouts = IF w.calls[k].checkInterval # 0 THEN @ \ {k} ELSE @,
                   !.calls[k].checkInterval = 0]

doResolve(w, k) ==
    IF w.calls[k].resolved THEN w
    ELSE LET c == cleanup([w EXCEPT !.calls[k].resolved = TRUE], k)
         IN  [c EXCEPT !.calls[k].settled = @ + 1]

poll(w, k) ==
    IF w.calls[k].resolved THEN w
    ELSE IF hasItems(w) THEN doResolve(w, k)
    ELSE [w EXCEPT !.timeouts = @ \cup {k}, !.calls[k].checkInterval = 1]

\* forEach over a copy of a Set of resolvers or over the abort listeners.
RECURSIVE invoke(_, _)
invoke(w, ks) == IF ks = <<>> THEN w ELSE invoke(doResolve(w, Head(ks)), Tail(ks))

waitForItems(w, signal) ==
    LET k == Len(w.calls) + 1
        w0 == [w EXCEPT !.calls = Append(@, [signal |-> signal, resolved |-> FALSE,
                                             checkInterval |-> 0, settled |-> 0])]
        w1 == IF signal THEN [w0 EXCEPT !.listeners = Append(@, k)] ELSE w0
        w2 == [w1 EXCEPT !.resolvers = Append(@, k)]
    IN  IF signal /\ w.aborted THEN doResolve(w0, k)
        ELSE IF hasItems(w1) THEN doResolve(w1, k)
        ELSE IF ~signal THEN poll(w2, k)
        ELSE w2

\* ---------------------------------------------------- events() generators
\* eventsGenerator from the top of its outer loop, for generator j.  Two copies
\* of generators.ts exist: the one built on waitForItems registers a resolver
\* to wait and empties eventQueue when the last generator ends; the polling
\* one waits on a 10 ms interval and only decrements the count in finally.
eventsLoop(st, j, aborted) ==
    IF aborted
    THEN LET last == st.active - 1 = 0
             left == IF last /\ opts.generators = "waitForItems" THEN <<>> ELSE st.queue
         IN  [st EXCEPT !.active = @ - 1,
                        !.queue = left,
                        !.hist.stale = IF last THEN Len(left) ELSE @,
                        !.hist.discarded = @ \/ (last /\ st.queue # <<>>),
                        !.hist.alone = @ /\ ~last,
                        !.hist.snapshot = IF last THEN <<>> ELSE @,
                        !.hist.yields = IF last THEN <<>> ELSE @,
                        !.hist.later = IF last THEN <<>> ELSE @,
                        !.pc = [@ EXCEPT ![j] = "done"]]
    ELSE IF st.queue # <<>>
    THEN [st EXCEPT !.queue = Tail(@),
                    !.out = [@ EXCEPT ![j] = Head(st.queue)],
                    !.hist.yields = IF st.hist.alone THEN Append(@, Head(st.queue)) ELSE @,
                    !.hist.staleYield = @ \/ st.hist.stale > 0,
                    !.hist.stale = IF @ > 0 THEN @ - 1 ELSE 0,
                    !.pc = [@ EXCEPT ![j] = "yielded"]]
    ELSE [st EXCEPT !.res = IF opts.generators = "waitForItems" THEN Append(@, j) ELSE @,
                    !.pc = [@ EXCEPT ![j] = "waiting"]]

RECURSIVE resumeAllEvents(_, _, _)
resumeAllEvents(st, woken, sig) ==
    IF woken = <<>> THEN st
    ELSE resumeAllEvents(eventsLoop(st, Head(woken), sig[Head(woken)] = "aborted"),
                         Tail(woken), sig)

EvState == [queue |-> eventQueue, active |-> activeEventIterators,
            res |-> eventResolvers, pc |-> epc, out |-> eout, hist |-> ehist]

SetEvState(st) ==
    /\ eventQueue' = st.queue
    /\ activeEventIterators' = st.active
    /\ eventResolvers' = st.res
    /\ epc' = st.pc
    /\ eout' = st.out
    /\ ehist' = st.hist

\* The events a macrotask emitted, applied in order: the callbacks, then the
\* event queue; with an active events() generator the first emit invokes and
\* removes every resolver, and the generators it woke resume, in that order,
\* once the macrotask has returned.
EmitEvents(events) ==
    LET cb == emitCallbacksAll(eventCallbacks, events, NoneGot, 0)
        queued == SubSeq(events, 1, cb.done)
        pushed == emitAll(eventQueue, activeEventIterators, queued)
        shifts == Len(eventQueue) + Len(queued) - Len(pushed)
        wake == activeEventIterators > 0 /\ queued # <<>>
        woken == IF wake THEN eventResolvers ELSE <<>>
        res == IF wake THEN <<>> ELSE eventResolvers
    IN  /\ emitted' = events
        /\ ecbGot' = cb.got
        /\ esync' = [queue |-> pushed, res |-> res, invoked |-> woken]
        /\ SetEvState(resumeAllEvents(
               [EvState EXCEPT !.queue = pushed, !.res = res,
                               !.hist.stale = IF @ > shifts THEN @ - shifts ELSE 0,
                               !.hist.later = IF activeEventIterators > 0 /\ ehist.alone
                                              THEN @ \o queued ELSE @],
               Live(woken), esig))

\* The event callback that calls back into the socket is registered and
\* reacts to events of this type.
Reenters(type) ==
    /\ lim.on = type
    /\ \E k \in 1..Len(eventCallbacks) : eventCallbacks[k] = lim.cb

Position(c) == CHOOSE k \in 1..Len(eventCallbacks) : eventCallbacks[k] = c

\* emit(first) during which callback lim.cb calls a method that makes the
\* emit() calls `nested`, followed by the emit() calls `rest`.  The nested
\* calls run inside the forEach of the first: the callbacks up to lim.cb have
\* been handed `first` already, the others are handed it after the nested
\* events, and it is pushed to eventQueue after them.
EmitNested(first, nested, rest) ==
    LET calls == <<first>> \o nested \o rest
        queued == nested \o <<first>> \o rest
        got == [c \in Callbacks |->
                   IF \A k \in 1..Len(eventCallbacks) : eventCallbacks[k] # c THEN <<>>
                   ELSE IF Position(c) <= Position(lim.cb) THEN calls ELSE queued]
        pushed == emitAll(eventQueue, activeEventIterators, queued)
        shifts == Len(eventQueue) + Len(queued) - Len(pushed)
        wake == activeEventIterators > 0
        woken == IF wake THEN eventResolvers ELSE <<>>
        res == IF wake THEN <<>> ELSE eventResolvers
    IN  /\ emitted' = calls
        /\ ecbGot' = got
        /\ esync' = [queue |-> pushed, res |-> res, invoked |-> woken]
        /\ SetEvState(resumeAllEvents(
               [EvState EXCEPT !.queue = pushed, !.res = res,
                               !.hist.stale = IF @ > shifts THEN @ - shifts ELSE 0,
                               !.hist.later = IF activeEventIterators > 0 /\ ehist.alone
                                              THEN @ \o queued ELSE @],
               Live(woken), esig))

\* ------------------------------------------------------ MessageHandler
\* handleCallbacks without the try/catch: the first exception ends the forEach
\* and propagates.
RECURSIVE handleCallbacks_NoCatch(_, _, _)
handleCallbacks_NoCatch(cbs, parsed, got) ==
    IF cbs = <<>> THEN [got |-> got, threw |-> FALSE]
    ELSE LET c == Head(cbs)
             g == [got EXCEPT ![c] = Append(@, parsed)]
         IN  IF c \in Throwers
             THEN [got |-> g, threw |-> TRUE]
             ELSE handleCallbacks_NoCatch(Tail(cbs), parsed, g)

\* handleCallbacks(parsed): forEach over messageCallbacks, every call in its
\* own try/catch (an exception is logged and dropped).
RECURSIVE handleCallbacks(_, _, _)
handleCallbacks(cbs, parsed, got) ==
    IF cbs = <<>> THEN [got |-> got, threw |-> FALSE]
    ELSE LET c == Head(cbs)
             g == [got EXCEPT ![c] = Append(@, parsed)]
         IN  IF c \in Throwers
             THEN handleCallbacks(Tail(cbs), parsed, g)
             ELSE handleCallbacks(Tail(cbs), parsed, g)

\* bufferReceivedMessage without the early return for activeMessageIterators = 0.
bufferReceivedMessage_NoGuard(buffer, active, data) ==
    LET r == handleBufferOverflow(opts.recvPolicy, buffer, data, opts.recvSize)
    IN  IF r.action = "error"
        THEN [buffer |-> buffer,
              events |-> <<createDroppedEvent("buffer_overflow", opts.recvPolicy,
                               Undefined, opts.recvSize, "receive")>>,
              threw |-> TRUE, notify |-> FALSE]
        ELSE IF r.action = "drop_newest"
        THEN [buffer |-> buffer,
              events |-> <<createDroppedEvent("buffer_full", opts.recvPolicy,
                               r.dropped, opts.recvSize, "receive")>>,
              threw |-> FALSE, notify |-> FALSE]
        ELSE IF r.action = "drop_oldest"
        THEN [buffer |-> Append(r.buffer, data),
              events |-> <<createDroppedEvent("buffer_full", opts.recvPolicy,
                               r.dropped, opts.recvSize, "receive")>>,
              threw |-> FALSE, notify |-> TRUE]
        ELSE [buffer |-> Append(r.buffer, data), events |-> <<>>,
              threw |-> FALSE, notify |-> TRUE]

\* bufferReceivedMessage that adds to the buffer without calling the resolvers.
bufferReceivedMessage_NoNotify(buffer, active, data) ==
    LET r == handleBufferOverflow(opts.recvPolicy, buffer, data, opts.recvSize)
        none == [buffer |-> buffer, events |-> <<>>, threw |-> FALSE, notify |-> FALSE]
    IN  IF active = 0 THEN none
        ELSE IF r.action = "error"
        THEN [none EXCEPT
                !.events = <<createDroppedEvent("buffer_overflow", opts.recvPolicy,
                                 Undefined, opts.recvSize, "receive")>>,
                !.threw = TRUE]
        ELSE IF r.action = "drop_newest"
        THEN [none EXCEPT
                !.events = <<createDroppedEvent("buffer_full", opts.recvPolicy,
                                 r.dropped, opts.recvSize, "receive")>>]
        ELSE IF r.action = "drop_oldest"
        THEN [buffer |-> Append(r.buffer, data),
              events |-> <<createDroppedEvent("buffer_full", opts.recvPolicy,
                               r.dropped, opts.recvSize, "receive")>>,
              threw |-> FALSE, notify |-> TRUE]
        ELSE [buffer |-> Append(r.buffer, data), events |-> <<>>,
              threw |-> FALSE, notify |-> FALSE]

\* bufferReceivedMessage(data): the new buffer, the events emitted, whether it
\* threw and whether it notified the waiting generators.
bufferReceivedMessage(buffer, active, data) ==
    LET r == handleBufferOverflow(opts.recvPolicy, buffer, data, opts.recvSize)
        none == [buffer |-> buffer, events |-> <<>>, threw |-> FALSE, notify |-> FALSE]
    IN  IF active = 0 THEN none
        ELSE IF r.action = "error"
        THEN [none EXCEPT
                !.events = <<createDroppedEvent("buffer_overflow", opts.recvPolicy,
                                 Undefined, opts.recvSize, "receive")>>,
                !.threw = TRUE]
        ELSE IF r.action = "drop_newest"
        THEN [none EXCEPT
                !.events = <<createDroppedEvent("buffer_full", opts.recvPolicy,
                                 r.dropped, opts.recvSize, "receive")>>]
        ELSE IF r.action = "drop_oldest"
        THEN [buffer |-> Append(r.buffer, data),
              events |-> <<createDroppedEvent("buffer_full", opts.recvPolicy,
                               r.dropped, opts.recvSize, "receive")>>,
              threw |-> FALSE, notify |-> TRUE]
        ELSE [buffer |-> Append(r.buffer, data), events |-> <<>>,
              threw |-> FALSE, notify |-> TRUE]

\* queueSendMessage treating the error outcome like drop_newest: no throw.
queueSendMessage_NoThrow(queue, messageStr) ==
    LET r == handleBufferOverflow(opts.sendPolicy, queue, messageStr, opts.sendSize)
    IN  IF r.action = "error"
        THEN [queue |-> queue,
              events |-> <<createDroppedEvent("send_queue_overflow", opts.sendPolicy,
                               Undefined, opts.sendSize, "send")>>,
              threw |-> FALSE]
        ELSE IF r.action = "drop_newest"
        THEN [queue |-> queue,
              events |-> <<createDroppedEvent("send_queue_full", opts.sendPolicy,
                               r.dropped, opts.sendSize, "send")>>,
              threw |-> FALSE]
        ELSE IF r.action = "drop_oldest"
        THEN [queue |-> Append(r.buffer, messageStr),
              events |-> <<createDroppedEvent("send_queue_full", opts.sendPolicy,
                               r.dropped, opts.sendSize, "send")>>,
              threw |-> FALSE]
        ELSE [queue |-> Append(r.buffer, messageStr), events |-> <<>>, threw |-> FALSE]

\* queueSendMessage(messageStr): the new queue, the events emitted, whether it threw.
queueSendMessage(queue, messageStr) ==
    LET r == handleBufferOverflow(opts.sendPolicy, queue, messageStr, opts.sendSize)
    IN  IF r.action = "error"
        THEN [queue |-> queue,
              events |-> <<createDroppedEvent("send_queue_overflow", opts.sendPolicy,
                               Undefined, opts.sendSize, "send")>>,
              threw |-> TRUE]
        ELSE IF r.action = "drop_newest"
        THEN [queue |-> queue,
              events |-> <<createDroppedEvent("send_queue_full", opts.sendPolicy,
                               r.dropped, opts.sendSize, "send")>>,
              threw |-> FALSE]
        ELSE IF r.action = "drop_oldest"
        THEN [queue |-> Append(r.buffer, messageStr),
              events |-> <<createDroppedEvent("send_queue_full", opts.sendPolicy,
                               r.dropped, opts.sendSize, "send")>>,
              threw |-> FALSE]
        ELSE [queue |-> Append(r.buffer, messageStr), events |-> <<>>, threw |-> FALSE]

sentEvent(message) == createEvent("sent", [NoMeta EXCEPT !.message = message])

RECURSIVE sentEvents(_)
sentEvents(messages) ==
    IF messages = <<>> THEN <<>>
    ELSE <<sentEvent(Head(messages))>> \o sentEvents(Tail(messages))

isOpen(w, ss) == w # 0 /\ ss[w].readyState = OPEN

\* flushQueue(): every queued message is shifted; the falsy ones ("") are
\* neither transmitted nor reported.
flushQueue(w, ss, queue) ==
    IF ~isOpen(w, ss)
    THEN [socks |-> ss, queue |-> queue, events |-> <<>>]
    ELSE LET out == SelectSeq(queue, LAMBDA m : m # "")
         IN  [socks |-> [ss EXCEPT ![w].sent = @ \o out],
              queue |-> <<>>,
              events |-> sentEvents(out)]

\* ---------------------------------------------------------- generators
\* messagesGenerator whose finally block leaves messageBuffer as it is.
messagesLoop_NoClear(st, i, aborted) ==
    IF aborted
    THEN LET left == st.buf
         IN  [st EXCEPT !.active = @ - 1,
                        !.buf = left,
                        !.hist.stale = IF st.active - 1 = 0 THEN Len(left) ELSE @,
                        !.hist.discarded = @ \/ (st.active - 1 = 0 /\ st.buf # <<>>),
                        !.pc = [@ EXCEPT ![i] = "done"]]
    ELSE IF st.buf # <<>>
    THEN [st EXCEPT !.buf = Tail(@),
                    !.out = [@ EXCEPT ![i] = parseMessage(Head(st.buf))],
                    !.hist.given = @ \cup {Head(st.buf)},
                    !.hist.yields = Append(@, Head(st.buf)),
                    !.hist.staleYield = @ \/ st.hist.stale > 0,
                    !.hist.stale = IF @ > 0 THEN @ - 1 ELSE 0,
                    !.pc = [@ EXCEPT ![i] = "yielded"]]
    ELSE [st EXCEPT !.res = Append(@, i),
                    !.pc = [@ EXCEPT ![i] = "waiting"]]

\* messagesGenerator that yields messageBuffer[0] without shift().
messagesLoop_NoShift(st, i, aborted) ==
    IF aborted
    THEN LET left == IF st.active - 1 = 0 THEN <<>> ELSE st.buf
         IN  [st EXCEPT !.active = @ - 1,
                        !.buf = left,
                        !.hist.stale = IF st.active - 1 = 0 THEN Len(left) ELSE @,
                        !.hist.discarded = @ \/ (st.active - 1 = 0 /\ st.buf # <<>>),
                        !.pc = [@ EXCEPT ![i] = "done"]]
    ELSE IF st.buf # <<>>
    THEN [st EXCEPT !.out = [@ EXCEPT ![i] = parseMessage(Head(st.buf))],
                    !.hist.given = @ \cup {Head(st.buf)},
                    !.hist.yields = Append(@, Head(st.buf)),
                    !.pc = [@ EXCEPT ![i] = "yielded"]]
    ELSE [st EXCEPT !.res = Append(@, i),
                    !.pc = [@ EXCEPT ![i] = "waiting"]]

\* messagesGenerator that looks at the signal only when the buffer is empty.
messagesLoop_DrainsFirst(st, i, aborted) ==
    IF st.buf # <<>>
    THEN [st EXCEPT !.buf = Tail(@),
                    !.out = [@ EXCEPT ![i] = parseMessage(Head(st.buf))],
                    !.hist.given = @ \cup {Head(st.buf)},
                    !.hist.yields = Append(@, Head(st.buf)),
                    !.hist.staleYield = @ \/ st.hist.stale > 0,
                    !.hist.stale = IF @ > 0 THEN @ - 1 ELSE 0,
                    !.pc = [@ EXCEPT ![i] = "yielded"]]
    ELSE IF aborted
    THEN LET left == IF st.active - 1 = 0 THEN <<>> ELSE st.buf
         IN  [st EXCEPT !.active = @ - 1,
                        !.buf = left,
                        !.hist.stale = IF st.active - 1 = 0 THEN Len(left) ELSE @,
                        !.hist.discarded = @ \/ (st.active - 1 = 0 /\ st.buf # <<>>),
                        !.pc = [@ EXCEPT ![i] = "done"]]
    ELSE [st EXCEPT !.res = Append(@, i),
                    !.pc = [@ EXCEPT ![i] = "waiting"]]

\* messagesGenerator that takes the newest item: pop() for shift().
messagesLoop_Pop(st, i, aborted) ==
    IF aborted
    THEN LET left == IF st.active - 1 = 0 THEN <<>> ELSE st.buf
         IN  [st EXCEPT !.active = @ - 1,
                        !.buf = left,
                        !.hist.stale = IF st.active - 1 = 0 THEN Len(left) ELSE @,
                        !.hist.discarded = @ \/ (st.active - 1 = 0 /\ st.buf # <<>>),
                        !.pc = [@ EXCEPT ![i] = "done"]]
    ELSE IF st.buf # <<>>
    THEN [st EXCEPT !.buf = SubSeq(@, 1, Len(@) - 1),
                    !.out = [@ EXCEPT ![i] = parseMessage(st.buf[Len(st.buf)])],
                    !.hist.given = @ \cup {st.buf[Len(st.buf)]},
                    !.hist.yields = Append(@, st.buf[Len(st.buf)]),
                    !.hist.staleYield = @ \/ st.hist.stale > 0,
                    !.hist.stale = IF @ > 0 THEN @ - 1 ELSE 0,
                    !.pc = [@ EXCEPT ![i] = "yielded"]]
    ELSE [st EXCEPT !.res = Append(@, i),
                    !.pc = [@ EXCEPT ![i] = "waiting"]]

\* messagesGenerator whose finally block does not decrement the count.
messagesLoop_NoDecrement(st, i, aborted) ==
    IF aborted
    THEN LET left == IF st.active = 0 THEN <<>> ELSE st.buf
         IN  [st EXCEPT !.buf = left,
                        !.hist.stale = IF st.active = 0 THEN Len(left) ELSE @,
                        !.hist.discarded = @ \/ (st.active = 0 /\ st.buf # <<>>),
                        !.pc = [@ EXCEPT ![i] = "done"]]
    ELSE IF st.buf # <<>>
    THEN [st EXCEPT !.buf = Tail(@),
                    !.out = [@ EXCEPT ![i] = parseMessage(Head(st.buf))],
                    !.hist.given = @ \cup {Head(st.buf)},
                    !.hist.yields = Append(@, Head(st.buf)),
                    !.hist.staleYield = @ \/ st.hist.stale > 0,
                    !.hist.stale = IF @ > 0 THEN @ - 1 ELSE 0,
                    !.pc = [@ EXCEPT ![i] = "yielded"]]
    ELSE [st EXCEPT !.res = Append(@, i),
                    !.pc = [@ EXCEPT ![i] = "waiting"]]

\* generators.ts messagesGenerator from the top of its outer loop, for generator
\* i whose signal is aborted or not: leave through finally, yield the head of
\* the buffer, or block in waitForItems with its resolver registered.  st holds
\* the fields the generator touches: buf, active, res, pc, out (and hist, the
\* record of what it did).
messagesLoop(st, i, aborted) ==
    IF aborted
    THEN LET left == IF st.active - 1 = 0 THEN <<>> ELSE st.buf
         IN  [st EXCEPT !.active = @ - 1,
                        !.buf = left,
                        !.hist.stale = IF st.active - 1 = 0 THEN Len(left) ELSE @,
                        !.hist.discarded = @ \/ (st.active - 1 = 0 /\ st.buf # <<>>),
                        !.pc = [@ EXCEPT ![i] = "done"]]
    ELSE IF st.buf # <<>>
    THEN [st EXCEPT !.buf = Tail(@),
                    !.out = [@ EXCEPT ![i] = parseMessage(Head(st.buf))],
                    !.hist.given = @ \cup {Head(st.buf)},
                    !.hist.yields = Append(@, Head(st.buf)),
                    !.hist.staleYield = @ \/ st.hist.stale > 0,
                    !.hist.stale = IF @ > 0 THEN @ - 1 ELSE 0,
                    !.pc = [@ EXCEPT ![i] = "yielded"]]
    ELSE [st EXCEPT !.res = Append(@, i),
                    !.pc = [@ EXCEPT ![i] = "waiting"]]

\* The generators whose waitForItems promise was resolved resume one after the
\* other, in the order their resolvers were called, before the next macrotask.
RECURSIVE resumeAll(_, _, _)
resumeAll(st, woken, sig) ==
    IF woken = <<>> THEN st
    ELSE resumeAll(messagesLoop(st, Head(woken), sig[Head(woken)] = "aborted"),
                   Tail(woken), sig)

MsgState == [buf |-> messageBuffer, active |-> activeMessageIterators,
             res |-> messageResolvers, pc |-> mpc, out |-> mout, hist |-> mhist]

SetMsgState(st, drained) ==
    /\ messageBuffer' = st.buf
    /\ activeMessageIterators' = st.active
    /\ messageResolvers' = st.res
    /\ mpc' = st.pc
    /\ mout' = st.out
    /\ mhist' = st.hist
    /\ arrivals' = IF drained THEN st.buf ELSE arrivals

Quiet(op) ==
    /\ lastOp' = op
    /\ threw' = FALSE
    /\ EmitEvents(<<>>)
    /\ UNCHANGED <<nRecv, nSend, nErr, hist>>

\* socket.messages({signal}) and the first next() of the generator it
\* returned: the body starts running.  A slot whose generator is done is
\* taken by the new generator.
MsgStart(i, sig) ==
    /\ mpc[i] \in {"new", "done"}
    /\ i <= lim.iter
    /\ mhist.starts < lim.starts
    /\ msig' = [msig EXCEPT ![i] = sig]
    /\ SetMsgState(messagesLoop([MsgState EXCEPT !.active = @ + 1,
                                                 !.out = [@ EXCEPT ![i] = Undefined],
                                                 !.hist.starts = @ + 1],
                                i, sig = "aborted"), TRUE)
    /\ Quiet(Op("messages.start", i, sig))
    /\ UNCHANGED <<opts, lim, calc, pump, wait, abortVars, cbVars, connVars, messageQueue>>

\* The consumer asks for the next item after a yield.
MsgNext(i) ==
    /\ mpc[i] = "yielded"
    /\ SetMsgState(messagesLoop(MsgState, i, msig[i] = "aborted"), TRUE)
    /\ Quiet(Op("messages.next", i, ""))
    /\ UNCHANGED <<opts, lim, calc, pump, wait, abortVars, cbVars, connVars, messageQueue, msig>>

\* The consumer leaves its loop after a yield: return() runs the finally block.
MsgReturn(i) ==
    /\ mpc[i] = "yielded"
    /\ SetMsgState(messagesLoop(MsgState, i, TRUE), TRUE)
    /\ Quiet(Op("messages.return", i, ""))
    /\ UNCHANGED <<opts, lim, calc, pump, wait, abortVars, cbVars, connVars, messageQueue, msig>>

\* The consumer aborts the signal it passed; a generator blocked in
\* waitForItems is resolved by its abort listener and leaves through finally.
MsgAbort(i) ==
    /\ msig[i] = "live"
    /\ msig' = [msig EXCEPT ![i] = "aborted"]
    /\ IF mpc[i] = "waiting"
       THEN SetMsgState(messagesLoop(
                [MsgState EXCEPT !.res = abortHandler(@, i)], i, TRUE), TRUE)
       ELSE UNCHANGED <<messageBuffer, activeMessageIterators, messageResolvers,
                        mpc, mout, arrivals, mhist>>
    /\ Quiet(Op("messages.abort", i, ""))
    /\ UNCHANGED <<opts, lim, calc, pump, wait, abortVars, cbVars, connVars, messageQueue>>

\* handleSendImmediately reporting the serialized message in the sent event.
handleSendImmediately_SerializedMeta(w, ss, message, data) ==
    IF ~isOpen(w, ss)
    THEN [socks |-> ss, events |-> <<>>]
    ELSE [socks |-> [ss EXCEPT ![w].sent = Append(@, message)],
          events |-> <<sentEvent(message)>>]

\* handleSendImmediately(message, data): transmit, then the sent event with
\* the data as the caller passed it.
handleSendImmediately(w, ss, message, data) ==
    IF ~isOpen(w, ss)
    THEN [socks |-> ss, events |-> <<>>]
    ELSE [socks |-> [ss EXCEPT ![w].sent = Append(@, message)],
          events |-> <<sentEvent(data)>>]

\* MessageHandler.send(data) called from inside a callback, on the transports
\* ss and the send queue as they are at that moment; an exception it throws
\* ends in the try/catch around the callback.
sendNow(w, ss, queue, data) ==
    LET message == serializeMessage(data)
        messageStr == IF typeOf(message) = "string" THEN message ELSE String(message)
        h == handleSendImmediately(w, ss, message, data)
        q == queueSendMessage(queue, messageStr)
    IN  IF isOpen(w, ss)
        THEN [socks |-> h.socks, queue |-> queue, events |-> h.events]
        ELSE [socks |-> ss, queue |-> q.queue, events |-> q.events]

\* Socket.send(data) -> MessageHandler.send: transmit at once on an open
\* transport (handleSendImmediately), otherwise queue, as a string, under the
\* send policy.
send(data) ==
    /\ nSend < lim.send
    /\ LET message == serializeMessage(data)
           messageStr == IF typeOf(message) = "string" THEN message ELSE String(message)
           h == handleSendImmediately(ws, socks, message, data)
           q == queueSendMessage(messageQueue, messageStr)
       IN  IF isOpen(ws, socks)
           THEN /\ socks' = h.socks
                /\ EmitEvents(h.events)
                /\ threw' = FALSE
                /\ UNCHANGED messageQueue
           ELSE /\ messageQueue' = q.queue
                /\ EmitEvents(q.events)
                /\ threw' = q.threw
                /\ UNCHANGED socks
    /\ lastOp' = Op("send", 0, data)
    /\ nSend' = nSend + 1
    /\ UNCHANGED <<opts, lim, calc, wait, abortVars, cbVars, ws, ctorCalls, isManualClose, reconnectCount,
                   reconnectTimer, timers, timerSeq, msgVars, nRecv, nErr, hist>>

\* Socket.send(data) called by the user.
Send(data) == send(data) /\ UNCHANGED pump

\* MessageHandler.receive(data), called for transport i or by receiveMessages
\* (i = 0): the received event, the callbacks, then the receive buffer; the
\* generators it notified resume before the next macrotask.
receive(i, data) ==
    /\ nRecv < lim.recv
    /\ LET parsed == parseMessage(data)
           cb == handleCallbacks(messageCallbacks, parsed, NoneGot)
           none == [buffer |-> messageBuffer, events |-> <<>>, threw |-> TRUE, notify |-> FALSE]
           b == IF cb.threw THEN none
                ELSE bufferReceivedMessage(messageBuffer, activeMessageIterators, data)
           woken == IF b.notify THEN messageResolvers ELSE <<>>
           shifted == b.notify /\ b.events # <<>> /\ messageBuffer # <<>>
           st == resumeAll([MsgState EXCEPT !.buf = b.buffer,
                                            !.res = IF b.notify THEN <<>> ELSE @,
                                            !.hist.stale = IF shifted /\ @ > 0 THEN @ - 1 ELSE @,
                                            !.hist.appended =
                                                IF b.notify THEN Append(@, data) ELSE @,
                                            !.hist.evicted =
                                                IF shifted THEN @ \cup {Head(messageBuffer)}
                                                ELSE @],
                           Live(woken), msig)
       IN  /\ EmitEvents(<<createEvent("received", [NoMeta EXCEPT !.message = parsed])>>
                         \o b.events)
           /\ mcbGot' = cb.got
           /\ threw' = b.threw
           /\ messageBuffer' = st.buf
           /\ activeMessageIterators' = st.active
           /\ messageResolvers' = st.res
           /\ mpc' = st.pc
           /\ mout' = st.out
           /\ mhist' = st.hist
           /\ arrivals' = IF activeMessageIterators = 0 \/ cb.threw THEN arrivals
                          ELSE IF Live(woken) # <<>> THEN st.buf
                          ELSE Append(arrivals, data)
    /\ lastOp' = Op("receive", i, data)
    /\ nRecv' = nRecv + 1
    /\ UNCHANGED <<opts, lim, calc, wait, abortVars, messageCallbacks, eventCallbacks, unsub, esig, connVars,
                   messageQueue, msig, nSend, nErr, hist>>

\* ws.onmessage of transport i.
WsMessage(i, data) ==
    /\ i \in 1..Len(socks)
    /\ socks[i].readyState = OPEN
    /\ receive(i, data)
    /\ UNCHANGED pump

\* Socket.onMessage(callback): Set.add.
OnMessage(c) ==
    /\ c <= lim.mcb
    /\ c \notin {messageCallbacks[k] : k \in 1..Len(messageCallbacks)}
    /\ messageCallbacks' = Append(messageCallbacks, c)
    /\ unsub' = [unsub EXCEPT !.message = @ \ {c}]
    /\ Quiet(Op("onMessage", c, ""))
    /\ UNCHANGED <<opts, lim, calc, pump, wait, abortVars, eventCallbacks, mcbGot, esig, connVars, msgVars, messageQueue>>

\* An unsubscribe closure that deletes nothing.
OffMessage_NoDelete(c) ==
    /\ c \in {messageCallbacks[k] : k \in 1..Len(messageCallbacks)}
    /\ c \notin unsub.message
    /\ messageCallbacks' = messageCallbacks
    /\ unsub' = [unsub EXCEPT !.message = @ \cup {c}]
    /\ Quiet(Op("onMessage.unsubscribe", c, ""))
    /\ UNCHANGED <<opts, lim, calc, pump, wait, abortVars, eventCallbacks, mcbGot, esig, connVars, msgVars, messageQueue>>

\* The closure onMessage(callback) returned: Set.delete.
OffMessage(c) ==
    /\ c \in {messageCallbacks[k] : k \in 1..Len(messageCallbacks)}
    /\ messageCallbacks' = SelectSeq(messageCallbacks, LAMBDA x : x # c)
    /\ unsub' = [unsub EXCEPT !.message = @ \cup {c}]
    /\ Quiet(Op("onMessage.unsubscribe", c, ""))
    /\ UNCHANGED <<opts, lim, calc, pump, wait, abortVars, eventCallbacks, mcbGot, esig, connVars, msgVars, messageQueue>>

\* Socket.onEvent(callback): Set.add.
OnEvent(c) ==
    /\ c <= lim.ecb
    /\ c \notin {eventCallbacks[k] : k \in 1..Len(eventCallbacks)}
    /\ eventCallbacks' = Append(eventCallbacks, c)
    /\ unsub' = [unsub EXCEPT !.event = @ \ {c}]
    /\ Quiet(Op("onEvent", c, ""))
    /\ UNCHANGED <<opts, lim, calc, pump, wait, abortVars, messageCallbacks, mcbGot, esig, connVars, msgVars, messageQueue>>

\* The closure onEvent(callback) returned: Set.delete.
OffEvent(c) ==
    /\ c \in {eventCallbacks[k] : k \in 1..Len(eventCallbacks)}
    /\ eventCallbacks' = SelectSeq(eventCallbacks, LAMBDA x : x # c)
    /\ unsub' = [unsub EXCEPT !.event = @ \cup {c}]
    /\ Quiet(Op("onEvent.unsubscribe", c, ""))
    /\ UNCHANGED <<opts, lim, calc, pump, wait, abortVars, messageCallbacks, mcbGot, esig, connVars, msgVars, messageQueue>>

\* What a macrotask that emits nothing and only touches the events()
\* generators leaves behind.
QuietEvents(op) ==
    /\ lastOp' = op
    /\ threw' = FALSE
    /\ emitted' = <<>>
    /\ ecbGot' = NoneGot
    /\ UNCHANGED <<nRecv, nSend, nErr, hist>>

\* socket.events({signal}) and the first next() of the generator it returned.
EvStart(j, sig) ==
    /\ epc[j] \in {"new", "done"}
    /\ j <= lim.eiter
    /\ ehist.starts < lim.estarts
    /\ esig' = [esig EXCEPT ![j] = sig]
    /\ LET alone == activeEventIterators = 0
           st == eventsLoop([EvState EXCEPT !.active = @ + 1,
                                            !.out = [@ EXCEPT ![j] = Undefined],
                                            !.hist.starts = @ + 1,
                                            !.hist.alone = alone,
                                            !.hist.snapshot = IF alone THEN eventQueue ELSE @,
                                            !.hist.yields = IF alone THEN <<>> ELSE @,
                                            !.hist.later = IF alone THEN <<>> ELSE @],
                            j, sig = "aborted")
       IN  SetEvState(st) /\ esync' = [queue |-> st.queue, res |-> st.res, invoked |-> <<>>]
    /\ QuietEvents(Op("events.start", j, sig))
    /\ UNCHANGED <<opts, lim, calc, pump, wait, abortVars, messageCallbacks, eventCallbacks, mcbGot, unsub, connVars,
                   msgVars, messageQueue>>

\* The consumer asks for the next event after a yield.
EvNext(j) ==
    /\ epc[j] = "yielded"
    /\ LET st == eventsLoop(EvState, j, esig[j] = "aborted")
       IN  SetEvState(st) /\ esync' = [queue |-> st.queue, res |-> st.res, invoked |-> <<>>]
    /\ QuietEvents(Op("events.next", j, ""))
    /\ UNCHANGED <<opts, lim, calc, pump, wait, abortVars, cbVars, connVars, msgVars, messageQueue>>

\* The consumer leaves its loop after a yield: return() runs the finally block.
EvReturn(j) ==
    /\ epc[j] = "yielded"
    /\ LET st == eventsLoop(EvState, j, TRUE)
       IN  SetEvState(st) /\ esync' = [queue |-> st.queue, res |-> st.res, invoked |-> <<>>]
    /\ QuietEvents(Op("events.return", j, ""))
    /\ UNCHANGED <<opts, lim, calc, pump, wait, abortVars, cbVars, connVars, msgVars, messageQueue>>

\* The consumer aborts the signal it passed.  A generator blocked in
\* waitForItems is resolved by its abort listener and leaves through finally;
\* one blocked on the polling interval notices at its next tick.
EvAbort(j) ==
    /\ esig[j] = "live"
    /\ esig' = [esig EXCEPT ![j] = "aborted"]
    /\ LET st == IF epc[j] = "waiting" /\ opts.generators = "waitForItems"
                 THEN eventsLoop([EvState EXCEPT !.res = abortHandler(@, j)],
                                 j, TRUE)
                 ELSE EvState
       IN  SetEvState(st) /\ esync' = [queue |-> st.queue, res |-> st.res, invoked |-> <<>>]
    /\ QuietEvents(Op("events.abort", j, ""))
    /\ UNCHANGED <<opts, lim, calc, pump, wait, abortVars, messageCallbacks, eventCallbacks, mcbGot, unsub, connVars,
                   msgVars, messageQueue>>

\* A tick of the polling interval of generator j that ends the wait: the
\* signal is aborted or eventQueue has something.
EvPoll(j) ==
    /\ opts.generators = "polling"
    /\ epc[j] = "waiting"
    /\ esig[j] = "aborted" \/ eventQueue # <<>>
    /\ LET st == eventsLoop(EvState, j, esig[j] = "aborted")
       IN  SetEvState(st) /\ esync' = [queue |-> st.queue, res |-> st.res, invoked |-> <<>>]
    /\ QuietEvents(Op("events.poll", j, ""))
    /\ UNCHANGED <<opts, lim, calc, pump, wait, abortVars, cbVars, connVars, msgVars, messageQueue>>

\* ---------------------------------------------------- ConnectionHandler
reconnectEvent(attempt, hasInterval) ==
    createEvent("reconnect", [NoMeta EXCEPT !.attempt = attempt, !.hasInterval = hasInterval])

\* The attempts that the scheduled flavour of the reconnect events announces.
Announced(events) ==
    LET sch == SelectSeq(events, LAMBDA e : e.type = "reconnect" /\ e.meta.hasInterval)
    IN  [k \in 1..Len(sch) |-> sch[k].meta.attempt]

\* scheduleReconnect whose first event carries no interval.
scheduleReconnect_NoInterval(c) ==
    LET pending == IF c.reconnectTimer # 0 THEN c.timers \ {c.reconnectTimer} ELSE c.timers
    IN  IF c.count >= opts.attempts
        THEN [reconnectTimer |-> c.reconnectTimer, timers |-> pending,
              timerSeq |-> c.timerSeq, events |-> <<>>]
        ELSE [reconnectTimer |-> c.timerSeq + 1, timers |-> pending \cup {c.timerSeq + 1},
              timerSeq |-> c.timerSeq + 1,
              events |-> <<reconnectEvent(c.count + 1, FALSE)>>]

\* scheduleReconnect without the clearTimeout of the pending handle.
scheduleReconnect_NoClear(c) ==
    IF c.count >= opts.attempts
    THEN [reconnectTimer |-> c.reconnectTimer, timers |-> c.timers,
          timerSeq |-> c.timerSeq, events |-> <<>>]
    ELSE [reconnectTimer |-> c.timerSeq + 1, timers |-> c.timers \cup {c.timerSeq + 1},
          timerSeq |-> c.timerSeq + 1,
          events |-> <<reconnectEvent(c.count + 1, TRUE)>>]

\* scheduleReconnect announcing the attempt after the next one.
scheduleReconnect_NextAttempt(c) ==
    LET pending == IF c.reconnectTimer # 0 THEN c.timers \ {c.reconnectTimer} ELSE c.timers
    IN  IF c.count >= opts.attempts
        THEN [reconnectTimer |-> c.reconnectTimer, timers |-> pending,
              timerSeq |-> c.timerSeq, events |-> <<>>]
        ELSE [reconnectTimer |-> c.timerSeq + 1, timers |-> pending \cup {c.timerSeq + 1},
              timerSeq |-> c.timerSeq + 1,
              events |-> <<reconnectEvent(c.count + 2, TRUE)>>]

\* scheduleReconnect() on c = [count, reconnectTimer, timers, timerSeq]: the
\* pending handle is cleared; unless the attempts are used up the scheduled
\* flavour of the reconnect event is emitted and a new timeout is armed.
scheduleReconnect(c) ==
    LET pending == IF c.reconnectTimer # 0 THEN c.timers \ {c.reconnectTimer} ELSE c.timers
    IN  IF c.count >= opts.attempts
        THEN [reconnectTimer |-> c.reconnectTimer, timers |-> pending,
              timerSeq |-> c.timerSeq, events |-> <<>>]
        ELSE [reconnectTimer |-> c.timerSeq + 1, timers |-> pending \cup {c.timerSeq + 1},
              timerSeq |-> c.timerSeq + 1,
              events |-> <<reconnectEvent(c.count + 1, TRUE)>>]

NoSchedule(c) ==
    [reconnectTimer |-> c.reconnectTimer, timers |-> c.timers,
     timerSeq |-> c.timerSeq, events |-> <<>>]

\* A transport: readyState, the arguments of its close() call, what it has
\* transmitted; and, for the record, the close(code, reason) call of the user
\* that closed it while open and the closed events emitted for it.
NoArgs == [code |-> -2, reason |-> Undefined]
NewSocket == [readyState |-> CONNECTING, closeCode |-> -1, closeReason |-> Undefined,
              sent |-> <<>>, asked |-> NoArgs, closeEvents |-> 0]

\* state.abortController?.signal.aborted
Aborted == abortController # 0 /\ controllers[abortController]

\* connect() whose catch clause emits the error and schedules nothing.
connect_NoRetryOnThrow(w, ss, c, throws) ==
    IF Aborted
    THEN [ws |-> w, socks |-> ss, called |-> FALSE, events |-> <<>>,
          reconnectTimer |-> c.reconnectTimer, timers |-> c.timers,
          timerSeq |-> c.timerSeq]
    ELSE IF throws
    THEN [ws |-> w, socks |-> ss, called |-> TRUE,
          events |-> <<createEvent("error", NoMeta)>>,
          reconnectTimer |-> c.reconnectTimer, timers |-> c.timers,
          timerSeq |-> c.timerSeq]
    ELSE [ws |-> Len(ss) + 1, socks |-> Append(ss, NewSocket), called |-> TRUE,
          events |-> <<>>,
          reconnectTimer |-> c.reconnectTimer, timers |-> c.timers,
          timerSeq |-> c.timerSeq]

\* connect() that constructs a transport whatever the state of the signal.
connect_NoAbortGuard(w, ss, c, throws) ==
    IF throws
    THEN LET r == IF opts.enabled /\ c.count < opts.attempts
                  THEN scheduleReconnect(c) ELSE NoSchedule(c)
         IN  [ws |-> w, socks |-> ss, called |-> TRUE,
              events |-> <<createEvent("error", NoMeta)>> \o r.events,
              reconnectTimer |-> r.reconnectTimer, timers |-> r.timers,
              timerSeq |-> r.timerSeq]
    ELSE [ws |-> Len(ss) + 1, socks |-> Append(ss, NewSocket), called |-> TRUE,
          events |-> <<>>,
          reconnectTimer |-> c.reconnectTimer, timers |-> c.timers,
          timerSeq |-> c.timerSeq]

\* connect(): returns at once when state.abortController is aborted (the
\* library never assigns the field; the owner of the state may).  A
\* constructor that throws leaves state.ws as it was, emits error and
\* schedules a retry without looking at isManualClose.  `called` tells
\* whether the constructor was called.
connect(w, ss, c, throws) ==
    IF Aborted
    THEN [ws |-> w, socks |-> ss, called |-> FALSE, events |-> <<>>,
          reconnectTimer |-> c.reconnectTimer, timers |-> c.timers,
          timerSeq |-> c.timerSeq]
    ELSE IF throws
    THEN LET r == IF opts.enabled /\ c.count < opts.attempts
                  THEN scheduleReconnect(c) ELSE NoSchedule(c)
         IN  [ws |-> w, socks |-> ss, called |-> TRUE,
              events |-> <<createEvent("error", NoMeta)>> \o r.events,
              reconnectTimer |-> r.reconnectTimer, timers |-> r.timers,
              timerSeq |-> r.timerSeq]
    ELSE [ws |-> Len(ss) + 1, socks |-> Append(ss, NewSocket), called |-> TRUE,
          events |-> <<>>,
          reconnectTimer |-> c.reconnectTimer, timers |-> c.timers,
          timerSeq |-> c.timerSeq]

\* connect() when state.abortController is null: close() has just run.
connectAfterClose(w, ss, c, throws) ==
    IF throws
    THEN LET r == IF opts.enabled /\ c.count < opts.attempts
                  THEN scheduleReconnect(c) ELSE NoSchedule(c)
         IN  [ws |-> w, socks |-> ss, called |-> TRUE,
              events |-> <<createEvent("error", NoMeta)>> \o r.events,
              reconnectTimer |-> r.reconnectTimer, timers |-> r.timers,
              timerSeq |-> r.timerSeq]
    ELSE [ws |-> Len(ss) + 1, socks |-> Append(ss, NewSocket), called |-> TRUE,
          events |-> <<>>,
          reconnectTimer |-> c.reconnectTimer, timers |-> c.timers,
          timerSeq |-> c.timerSeq]

TimerState == [count |-> reconnectCount, reconnectTimer |-> reconnectTimer,
               timers |-> timers, timerSeq |-> timerSeq]

\* Socket.connect() called by the user.
Connect(throws) ==
    /\ ctorCalls < lim.ctor
    /\ hist.userConnects < lim.conn
    /\ Aborted => ~throws
    /\ LET r == connect(ws, socks, TimerState, throws)
       IN  /\ ws' = r.ws
           /\ socks' = r.socks
           /\ reconnectTimer' = r.reconnectTimer
           /\ timers' = r.timers
           /\ timerSeq' = r.timerSeq
           /\ ctorCalls' = IF r.called THEN ctorCalls + 1 ELSE ctorCalls
           /\ EmitEvents(r.events)
    /\ threw' = FALSE
    /\ lastOp' = Op("connect", 0, IF throws THEN "throws" ELSE "")
    /\ hist' = [hist EXCEPT !.userConnects = @ + 1,
                            !.connectAfterClose = @ \/ hist.closeCtor >= 0,
                            !.ctorThrew = @ \/ throws,
                            !.announced = @ \o Announced(emitted')]
    /\ UNCHANGED <<opts, lim, calc, pump, wait, abortVars, cbVars, isManualClose, reconnectCount, msgVars, messageQueue,
                   nRecv, nSend, nErr>>

\* The timer callback without reconnectCount++.
TimerFire_NoIncrement(t, throws) ==
    /\ t \in timers
    /\ ctorCalls < lim.ctor
    /\ Aborted => ~throws
    /\ LET count == reconnectCount
           r == connect(ws, socks, [TimerState EXCEPT !.count = count,
                                                      !.timers = @ \ {t}], throws)
       IN  /\ reconnectCount' = count
           /\ ws' = r.ws
           /\ socks' = r.socks
           /\ reconnectTimer' = r.reconnectTimer
           /\ timers' = r.timers
           /\ timerSeq' = r.timerSeq
           /\ ctorCalls' = IF r.called THEN ctorCalls + 1 ELSE ctorCalls
           /\ EmitEvents(<<reconnectEvent(count, FALSE)>> \o r.events)
    /\ threw' = FALSE
    /\ lastOp' = Op("timer", t, IF throws THEN "throws" ELSE "")
    /\ hist' = [hist EXCEPT !.ctorThrew = @ \/ throws,
                            !.announced = @ \o Announced(emitted')]
    /\ UNCHANGED <<opts, lim, calc, pump, wait, abortVars, cbVars, isManualClose, msgVars, messageQueue, nRecv, nSend, nErr>>

\* The timeout armed by scheduleReconnect fires.
\* WebSocket.close(code, reason) of the transport: starts the closing
\* handshake of a connecting or open transport, nothing otherwise.
wsClose(sock, code, reason) ==
    IF sock.readyState \in {CONNECTING, OPEN}
    THEN [sock EXCEPT !.readyState = CLOSING,
                      !.closeCode = IF code = -1 THEN 1000 ELSE code,
                      !.closeReason = IF reason = Undefined THEN "" ELSE reason]
    ELSE sock

\* A callback handed the reconnect event of the firing timer (attempt only,
\* no interval) may call close() before the timer goes on to connect().
TimerFire(t, throws) ==
    /\ t \in timers
    /\ ctorCalls < lim.ctor
    /\ Aborted => ~throws
    /\ LET count == reconnectCount + 1
           closes == Reenters("reconnect")
           closed == IF ws # 0 THEN [socks EXCEPT ![ws] = wsClose(@, -1, Undefined)]
                     ELSE socks
           left == IF reconnectTimer # 0 THEN timers \ {t, reconnectTimer} ELSE timers \ {t}
           r == IF closes
                THEN connectAfterClose(0, closed,
                         [count |-> count, reconnectTimer |-> 0, timers |-> left,
                          timerSeq |-> timerSeq], throws)
                ELSE connect(ws, socks, [TimerState EXCEPT !.count = count,
                                                           !.timers = @ \ {t}], throws)
       IN  /\ reconnectCount' = count
           /\ ws' = r.ws
           /\ socks' = r.socks
           /\ reconnectTimer' = r.reconnectTimer
           /\ timers' = r.timers
           /\ timerSeq' = r.timerSeq
           /\ ctorCalls' = IF r.called THEN ctorCalls + 1 ELSE ctorCalls
           /\ EmitEvents(<<reconnectEvent(count, FALSE)>> \o r.events)
           /\ isManualClose' = (closes \/ isManualClose)
           /\ messageQueue' = IF closes THEN <<>> ELSE messageQueue
           /\ controllers' = IF closes /\ abortController # 0
                             THEN [controllers EXCEPT ![abortController] = TRUE]
                             ELSE controllers
           /\ abortController' = IF closes THEN 0 ELSE abortController
           /\ hist' = [hist EXCEPT !.ctorThrew = @ \/ throws,
                                   !.announced = @ \o Announced(emitted'),
                                   !.closeCtor = IF closes /\ @ < 0 THEN ctorCalls ELSE @]
    /\ threw' = FALSE
    /\ lastOp' = Op("timer", t, IF throws THEN "throws" ELSE "")
    /\ UNCHANGED <<opts, lim, calc, pump, wait, cbVars, msgVars, nRecv, nSend, nErr>>

\* The open hook without the reset of reconnectCount.
WsOpen_NoReset(i) ==
    /\ i \in 1..Len(socks)
    /\ socks[i].readyState = CONNECTING
    /\ LET opened == [socks EXCEPT ![i].readyState = OPEN]
           f == flushQueue(ws, opened, messageQueue)
       IN  /\ socks' = f.socks
           /\ messageQueue' = f.queue
           /\ EmitEvents(<<createEvent("open", NoMeta)>> \o f.events)
    /\ reconnectCount' = reconnectCount
    /\ threw' = FALSE
    /\ lastOp' = Op("open", i, "")
    /\ hist' = [hist EXCEPT !.budgetReset = @ \/ reconnectCount > 0]
    /\ UNCHANGED <<opts, lim, calc, pump, wait, abortVars, cbVars, ws, ctorCalls, isManualClose, reconnectTimer, timers, timerSeq,
                   msgVars, nRecv, nSend, nErr>>

\* ws.onopen of transport i.
\* A callback handed the open event may call send() before flushQueue runs.
WsOpen(i) ==
    /\ i \in 1..Len(socks)
    /\ socks[i].readyState = CONNECTING
    /\ LET opened == [socks EXCEPT ![i].readyState = OPEN]
           sends == Reenters("open") /\ nSend < lim.send
           s == IF sends THEN sendNow(ws, opened, messageQueue, Out(nSend))
                ELSE [socks |-> opened, queue |-> messageQueue, events |-> <<>>]
           f == flushQueue(ws, s.socks, s.queue)
       IN  /\ socks' = f.socks
           /\ messageQueue' = f.queue
           /\ nSend' = IF sends THEN nSend + 1 ELSE nSend
           /\ IF sends
              THEN EmitNested(createEvent("open", NoMeta), s.events, f.events)
              ELSE EmitEvents(<<createEvent("open", NoMeta)>> \o f.events)
    /\ reconnectCount' = 0
    /\ threw' = FALSE
    /\ lastOp' = Op("open", i, "")
    /\ hist' = [hist EXCEPT !.budgetReset = @ \/ reconnectCount > 0]
    /\ UNCHANGED <<opts, lim, calc, pump, wait, abortVars, cbVars, ws, ctorCalls, isManualClose, reconnectTimer, timers, timerSeq,
                   msgVars, nRecv, nErr>>

\* An error hook that schedules a retry as the close hook does.
WsError_Reconnects(i) ==
    /\ i \in 1..Len(socks)
    /\ socks[i].readyState # CLOSED
    /\ nErr < lim.err
    /\ LET r == IF ~isManualClose /\ opts.enabled /\ reconnectCount < opts.attempts
                THEN scheduleReconnect(TimerState) ELSE NoSchedule(TimerState)
       IN  /\ reconnectTimer' = r.reconnectTimer
           /\ timers' = r.timers
           /\ timerSeq' = r.timerSeq
           /\ hist' = [hist EXCEPT !.announced = @ \o Announced(r.events)]
           /\ EmitEvents(<<createEvent("error", NoMeta)>> \o r.events)
    /\ threw' = FALSE
    /\ lastOp' = Op("error", i, "")
    /\ nErr' = nErr + 1
    /\ UNCHANGED <<opts, lim, calc, pump, wait, abortVars, cbVars, ws, socks, ctorCalls, isManualClose,
                   reconnectCount, msgVars, messageQueue, nRecv, nSend>>

\* ws.onerror of transport i.
WsError(i) ==
    /\ i \in 1..Len(socks)
    /\ socks[i].readyState # CLOSED
    /\ nErr < lim.err
    /\ EmitEvents(<<createEvent("error", NoMeta)>>)
    /\ threw' = FALSE
    /\ lastOp' = Op("error", i, "")
    /\ nErr' = nErr + 1
    /\ UNCHANGED <<opts, lim, calc, pump, wait, abortVars, cbVars, connVars, msgVars, messageQueue, nRecv, nSend, hist>>

\* ws.onclose of transport i: the end of a close() handshake (clean, with the
\* code and reason asked for) or an abnormal closure (1006, not clean).
WsClose(i) ==
    /\ i \in 1..Len(socks)
    /\ socks[i].readyState # CLOSED
    /\ LET clean == socks[i].readyState = CLOSING
           meta == IF clean
                   THEN [NoMeta EXCEPT !.code = socks[i].closeCode,
                                       !.reason = socks[i].closeReason, !.wasClean = TRUE]
                   ELSE [NoMeta EXCEPT !.code = 1006, !.reason = "", !.wasClean = FALSE]
           r == IF ~isManualClose /\ opts.enabled /\ reconnectCount < opts.attempts
                THEN scheduleReconnect(TimerState) ELSE NoSchedule(TimerState)
       IN  /\ socks' = [socks EXCEPT ![i].readyState = CLOSED, ![i].closeEvents = @ + 1]
           /\ hist' = [hist EXCEPT !.closures = IF clean THEN @ ELSE @ + 1,
                                   !.announced = @ \o Announced(r.events)]
           /\ reconnectTimer' = r.reconnectTimer
           /\ timers' = r.timers
           /\ timerSeq' = r.timerSeq
           /\ EmitEvents(<<createEvent("close", meta)>> \o r.events)
    /\ threw' = FALSE
    /\ lastOp' = Op("close", i, "")
    /\ UNCHANGED <<opts, lim, calc, pump, wait, abortVars, cbVars, ws, ctorCalls, isManualClose, reconnectCount, msgVars,
                   messageQueue, nRecv, nSend, nErr>>

\* close() without messageQueue = [].
Close_KeepsQueue(args) ==
    /\ isManualClose' = TRUE
    /\ timers' = IF reconnectTimer # 0 THEN timers \ {reconnectTimer} ELSE timers
    /\ reconnectTimer' = 0
    /\ socks' = IF ws # 0
                THEN [socks EXCEPT ![ws] = [wsClose(@, args.code, args.reason) EXCEPT
                                               !.asked = IF socks[ws].readyState = OPEN
                                                         THEN args ELSE @]]
                ELSE socks
    /\ hist' = [hist EXCEPT !.closeCtor = IF @ < 0 THEN ctorCalls ELSE @]
    /\ ws' = 0
    /\ controllers' = IF abortController # 0
                      THEN [controllers EXCEPT ![abortController] = TRUE] ELSE controllers
    /\ abortController' = 0
    /\ messageQueue' = messageQueue
    /\ EmitEvents(<<>>)
    /\ threw' = FALSE
    /\ lastOp' = Op("user.close", args.code, args.reason)
    /\ UNCHANGED <<opts, lim, calc, pump, wait, cbVars, ctorCalls, reconnectCount, timerSeq, msgVars, nRecv, nSend, nErr>>

\* close() without isManualClose = true.
Close_KeepsAuto(args) ==
    /\ isManualClose' = isManualClose
    /\ timers' = IF reconnectTimer # 0 THEN timers \ {reconnectTimer} ELSE timers
    /\ reconnectTimer' = 0
    /\ socks' = IF ws # 0
                THEN [socks EXCEPT ![ws] = [wsClose(@, args.code, args.reason) EXCEPT
                                               !.asked = IF socks[ws].readyState = OPEN
                                                         THEN args ELSE @]]
                ELSE socks
    /\ hist' = [hist EXCEPT !.closeCtor = IF @ < 0 THEN ctorCalls ELSE @]
    /\ ws' = 0
    /\ controllers' = IF abortController # 0
                      THEN [controllers EXCEPT ![abortController] = TRUE] ELSE controllers
    /\ abortController' = 0
    /\ messageQueue' = <<>>
    /\ EmitEvents(<<>>)
    /\ threw' = FALSE
    /\ lastOp' = Op("user.close", args.code, args.reason)
    /\ UNCHANGED <<opts, lim, calc, pump, wait, cbVars, ctorCalls, reconnectCount, timerSeq, msgVars, nRecv, nSend, nErr>>

\* Socket.close(code, reason) -> ConnectionHandler.close.
Close(args) ==
    /\ isManualClose' = TRUE
    /\ timers' = IF reconnectTimer # 0 THEN timers \ {reconnectTimer} ELSE timers
    /\ reconnectTimer' = 0
    /\ socks' = IF ws # 0
                THEN [socks EXCEPT ![ws] = [wsClose(@, args.code, args.reason) EXCEPT
                                               !.asked = IF socks[ws].readyState = OPEN
                                                         THEN args ELSE @]]
                ELSE socks
    /\ hist' = [hist EXCEPT !.closeCtor = IF @ < 0 THEN ctorCalls ELSE @]
    /\ ws' = 0
    /\ controllers' = IF abortController # 0
                      THEN [controllers EXCEPT ![abortController] = TRUE] ELSE controllers
    /\ abortController' = 0
    /\ messageQueue' = <<>>
    /\ EmitEvents(<<>>)
    /\ threw' = FALSE
    /\ lastOp' = Op("user.close", args.code, args.reason)
    /\ UNCHANGED <<opts, lim, calc, pump, wait, cbVars, ctorCalls, reconnectCount, timerSeq, msgVars, nRecv, nSend, nErr>>

\* The owner of the InternalSocketState installs an AbortController in
\* state.abortController, aborted already or not.
SetAbortController(aborted) ==
    /\ Len(controllers) < lim.ctl
    /\ controllers' = Append(controllers, aborted)
    /\ abortController' = Len(controllers) + 1
    /\ EmitEvents(<<>>)
    /\ threw' = FALSE
    /\ lastOp' = Op("state.abortController", Len(controllers) + 1,
                    IF aborted THEN "aborted" ELSE "")
    /\ UNCHANGED <<opts, lim, calc, pump, wait, cbVars, connVars, msgVars, messageQueue, nRecv, nSend, nErr, hist>>

\* controller.abort() by the owner of controller k.
Abort(k) ==
    /\ k \in 1..Len(controllers)
    /\ ~controllers[k]
    /\ controllers' = [controllers EXCEPT ![k] = TRUE]
    /\ EmitEvents(<<>>)
    /\ threw' = FALSE
    /\ lastOp' = Op("controller.abort", k, "")
    /\ UNCHANGED <<opts, lim, calc, pump, wait, abortController, cbVars, connVars, msgVars, messageQueue,
                   nRecv, nSend, nErr, hist>>

\* waitForItems on its own: a consumer calls it, with the shared signal or
\* without one.
WaitForItems(signal) ==
    /\ Len(wait.calls) < MaxWait
    /\ wait' = waitForItems(wait, signal)
    /\ UNCHANGED <<opts, lim, calc, pump, abortVars, connVars, msgVars, evVars, cbVars, messageQueue,
                   histVars>>

\* A producer appends an item: as bufferReceivedMessage and the branch of emit
\* with consumers do, calling a copy of the resolvers after clearing the Set;
\* or as the branch of emit without consumers does, calling nobody.
Push(notify) ==
    /\ wait.items < MaxItems
    /\ wait' = IF notify
               THEN invoke([wait EXCEPT !.items = @ + 1, !.resolvers = <<>>], wait.resolvers)
               ELSE [wait EXCEPT !.items = @ + 1]
    /\ UNCHANGED <<opts, lim, calc, pump, abortVars, connVars, msgVars, evVars, cbVars, messageQueue,
                   histVars>>

\* A consumer takes an item.
Shift ==
    /\ wait.items > 0
    /\ wait' = [wait EXCEPT !.items = @ - 1]
    /\ UNCHANGED <<opts, lim, calc, pump, abortVars, connVars, msgVars, evVars, cbVars, messageQueue,
                   histVars>>

\* controller.abort(): the abort event runs the listeners in the order they
\* were added.
AbortSignal ==
    /\ ~wait.aborted
    /\ wait' = invoke([wait EXCEPT !.aborted = TRUE], wait.listeners)
    /\ UNCHANGED <<opts, lim, calc, pump, abortVars, connVars, msgVars, evVars, cbVars, messageQueue,
                   histVars>>

\* The timeout armed by poll of call k fires.
PollFire(k) ==
    /\ k \in wait.timeouts
    /\ wait' = poll([wait EXCEPT !.timeouts = @ \ {k}], k)
    /\ UNCHANGED <<opts, lim, calc, pump, abortVars, connVars, msgVars, evVars, cbVars, messageQueue,
                   histVars>>

\* -------------------------------------------------------- specification
Options ==
    [enabled : BOOLEAN, attempts : 0..MaxAttempts,
     recvSize : 0..MaxCap, recvPolicy : Policies,
     sendSize : 0..MaxCap, sendPolicy : Policies, generators : {"waitForItems"}]

\* createSocket(options): normalizeOptions, createState and the first connect().
InitWith(o, l, throws) ==
    /\ opts = o
    /\ lim = l
    /\ LET c == [count |-> 0, reconnectTimer |-> 0, timers |-> {}, timerSeq |-> 0]
           r == IF throws
                THEN LET sch == IF o.enabled /\ 0 < o.attempts
                                THEN [reconnectTimer |-> 1, timers |-> {1}, timerSeq |-> 1,
                                      events |-> <<reconnectEvent(1, TRUE)>>]
                                ELSE NoSchedule(c)
                     IN  [ws |-> 0, socks |-> <<>>,
                          events |-> <<createEvent("error", NoMeta)>> \o sch.events,
                          reconnectTimer |-> sch.reconnectTimer, timers |-> sch.timers,
                          timerSeq |-> sch.timerSeq]
                ELSE [ws |-> 1, socks |-> <<NewSocket>>, events |-> <<>>,
                      reconnectTimer |-> 0, timers |-> {}, timerSeq |-> 0]
       IN  /\ ws = r.ws
           /\ socks = r.socks
           /\ reconnectTimer = r.reconnectTimer
           /\ timers = r.timers
           /\ timerSeq = r.timerSeq
           /\ emitted = r.events
           /\ eventQueue = r.events
    /\ ctorCalls = 1
    /\ pump = [kind |-> "none", len |-> 0, raises |-> FALSE, pos |-> 0, signal |-> "none",
               status |-> "idle", passed |-> <<>>]
    /\ wait = [aborted |-> FALSE, listeners |-> <<>>, items |-> 0, resolvers |-> <<>>,
               calls |-> <<>>, timeouts |-> {}]
    /\ calc = NoCalc
    /\ abortController = 0
    /\ controllers = <<>>
    /\ isManualClose = FALSE
    /\ reconnectCount = 0
    /\ messageBuffer = <<>>
    /\ messageQueue = <<>>
    /\ activeMessageIterators = 0
    /\ activeEventIterators = 0
    /\ messageResolvers = <<>>
    /\ eventResolvers = <<>>
    /\ messageCallbacks = <<>>
    /\ eventCallbacks = <<>>
    /\ epc = [i \in Iters |-> "new"]
    /\ esig = [i \in Iters |-> "none"]
    /\ eout = [i \in Iters |-> Undefined]
    /\ ehist = [starts |-> 0, stale |-> 0, staleYield |-> FALSE, discarded |-> FALSE,
                alone |-> FALSE, snapshot |-> <<>>, yields |-> <<>>, later |-> <<>>]
    /\ esync = [queue |-> eventQueue, res |-> <<>>, invoked |-> <<>>]
    /\ mcbGot = NoneGot
    /\ ecbGot = NoneGot
    /\ unsub = [message |-> {}, event |-> {}]
    /\ mpc = [i \in Iters |-> "new"]
    /\ msig = [i \in Iters |-> "none"]
    /\ mout = [i \in Iters |-> Undefined]
    /\ mhist = [starts |-> 0, stale |-> 0, staleYield |-> FALSE, discarded |-> FALSE,
                given |-> {}, yields |-> <<>>, appended |-> <<>>, evicted |-> {}]
    /\ threw = FALSE
    /\ lastOp = Op("createSocket", 0, IF throws THEN "throws" ELSE "")
    /\ arrivals = <<>>
    /\ nRecv = 0
    /\ nSend = 0
    /\ nErr = 0
    /\ hist = [userConnects |-> 0, closures |-> 0, budgetReset |-> FALSE,
               closeCtor |-> -1, connectAfterClose |-> FALSE, ctorThrew |-> throws,
               announced |-> Announced(emitted)]

Limits(c, u, r, s, e, g) ==
    [ctor |-> c, conn |-> u, recv |-> r, send |-> s, err |-> e, iter |-> g, starts |-> g,
     eiter |-> 0, estarts |-> 0, mcb |-> 0, ecb |-> 0, ctl |-> 0, input |-> 0,
     cb |-> 0, on |-> "none"]

\* The k-th inbound frame and the k-th payload passed to send().
Frames == <<"msg0", "msg1", "msg2", "msg3", "msg4", "msg5">>
Frame(n) == Frames[(n % Len(Frames)) + 1]
SendValues == {"msg1", "", ObjectA, BinaryA}

\* ------------------------------------------- sendMessages, receiveMessages
\* The k-th item of the input of the call.
Item(p, k) == IF p.kind = "send" THEN Out(k - 1) ELSE Frame(k - 1)

\* One turn of `for await` whose catch clause rethrows whatever the signal.
iterate_Rethrows(p) ==
    IF p.pos = p.len
    THEN [pass |-> FALSE,
          status |-> IF p.raises THEN "rejected" ELSE "resolved"]
    ELSE IF p.signal = "aborted"
    THEN [pass |-> FALSE, status |-> "resolved"]
    ELSE [pass |-> TRUE, status |-> "running"]

\* One turn of `for await (const message of messages)` inside try / catch:
\* the input ends, or raises (swallowed when the signal is aborted, rethrown
\* otherwise), or gives an item, which is dropped by the break when the signal
\* is aborted and passed on otherwise.
iterate(p) ==
    IF p.pos = p.len
    THEN [pass |-> FALSE,
          status |-> IF p.raises /\ p.signal # "aborted" THEN "rejected" ELSE "resolved"]
    ELSE IF p.signal = "aborted"
    THEN [pass |-> FALSE, status |-> "resolved"]
    ELSE [pass |-> TRUE, status |-> "running"]

\* sendMessages(messages, {signal}) / receiveMessages(messages, {signal}) up
\* to the first await.
StartPump(kind, len, raises, signal) ==
    /\ pump.kind = "none"
    /\ len <= lim.input /\ lim.input > 0
    /\ pump' = [kind |-> kind, len |-> len, raises |-> raises, pos |-> 0, signal |-> signal,
                status |-> "running", passed |-> <<>>]
    /\ EmitEvents(<<>>)
    /\ threw' = FALSE
    /\ lastOp' = Op(kind \o "Messages", len, signal)
    /\ UNCHANGED <<opts, lim, calc, wait, abortVars, cbVars, connVars, msgVars, messageQueue,
                   nRecv, nSend, nErr, hist>>

\* The input answers the pending next().  An exception of send / receive
\* reaches the catch clause with the signal not aborted and is rethrown.
PumpNext ==
    /\ pump.status = "running"
    /\ LET r == iterate(pump)
           item == Item(pump, pump.pos + 1)
       IN  IF r.pass
           THEN /\ IF pump.kind = "send" THEN send(item) ELSE receive(0, item)
                /\ pump' = [pump EXCEPT !.pos = @ + 1,
                                        !.passed = Append(@, item),
                                        !.status = IF threw' THEN "rejected" ELSE "running"]
           ELSE /\ pump' = [pump EXCEPT !.status = r.status]
                /\ EmitEvents(<<>>)
                /\ threw' = FALSE
                /\ lastOp' = Op(pump.kind \o "Messages.end", pump.pos, r.status)
                /\ UNCHANGED <<opts, lim, calc, wait, abortVars, cbVars, connVars, msgVars,
                               messageQueue, nRecv, nSend, nErr, hist>>

\* The caller aborts the signal it passed.
PumpAbort ==
    /\ pump.status = "running"
    /\ pump.signal = "live"
    /\ pump' = [pump EXCEPT !.signal = "aborted"]
    /\ EmitEvents(<<>>)
    /\ threw' = FALSE
    /\ lastOp' = Op(pump.kind \o "Messages.abort", 0, "")
    /\ UNCHANGED <<opts, lim, calc, wait, abortVars, cbVars, connVars, msgVars, messageQueue,
                   nRecv, nSend, nErr, hist>>

Init ==
    \E o \in Options, g \in Builds, throws \in BOOLEAN :
        InitWith([o EXCEPT !.generators = g],
                 [Limits(MaxCtor, MaxConn, MaxRecv, MaxSend, MaxErr, MaxIter) EXCEPT
                     !.eiter = MaxIter, !.estarts = MaxIter, !.mcb = MaxCb, !.ecb = MaxCb,
                     !.ctl = MaxCtl, !.input = MaxInput],
                 throws)

Next ==
    \/ \E a \in Attempts, b \in 0..MaxBase, k \in Backoffs, c \in 0..MaxLimit, r \in Randoms :
            CalculateReconnectInterval(a, b, k, c, r)
    \/ \E throws \in BOOLEAN : Connect(throws)
    \/ \E t \in TimerIds, throws \in BOOLEAN : TimerFire(t, throws)
    \/ \E i \in 1..MaxCtor : WsOpen(i)
    \/ \E i \in 1..MaxCtor : WsError(i)
    \/ \E i \in 1..MaxCtor : WsClose(i)
    \/ \E i \in 1..MaxCtor, data \in Payloads : WsMessage(i, data)
    \/ \E args \in CloseArgs : Close(args)
    \/ \E data \in Payloads \cup SendValues : Send(data)
    \/ \E i \in Iters, sig \in {"none", "live", "aborted"} : MsgStart(i, sig)
    \/ \E i \in Iters : MsgNext(i)
    \/ \E i \in Iters : MsgReturn(i)
    \/ \E i \in Iters : MsgAbort(i)
    \/ \E j \in Iters, sig \in {"none", "live", "aborted"} : EvStart(j, sig)
    \/ \E j \in Iters : EvNext(j)
    \/ \E j \in Iters : EvReturn(j)
    \/ \E j \in Iters : EvAbort(j)
    \/ \E j \in Iters : EvPoll(j)
    \/ \E c \in Callbacks : OnMessage(c)
    \/ \E c \in Callbacks : OffMessage(c)
    \/ \E c \in Callbacks : OnEvent(c)
    \/ \E c \in Callbacks : OffEvent(c)
    \/ \E aborted \in BOOLEAN : SetAbortController(aborted)
    \/ \E k \in 1..MaxCtl : Abort(k)
    \/ \E signal \in BOOLEAN : WaitForItems(signal)
    \/ \E notify \in BOOLEAN : Push(notify)
    \/ Shift
    \/ AbortSignal
    \/ \E k \in 1..MaxWait : PollFire(k)
    \/ \E kind \in {"send", "receive"}, len \in 0..MaxInput, raises \in BOOLEAN,
          signal \in {"none", "live", "aborted"} : StartPump(kind, len, raises, signal)
    \/ PumpNext
    \/ PumpAbort

Spec == Init /\ [][Next]_vars

\* Buffers: one transport that is never replaced (reconnect: false), every
\* capacity on either side and every overflow policy.
InitBuf ==
    \E o \in Options :
        /\ ~o.enabled /\ o.attempts = 0
        /\ o.recvPolicy = o.sendPolicy
        /\ \E l \in {Limits(1, 0, MaxRecv, 1, 0, 1), Limits(1, 0, 1, MaxSend, 0, 1)} :
              InitWith(o, l, FALSE)

NextBuf ==
    \/ \E i \in 1..MaxCtor : WsOpen(i)
    \/ \E i \in 1..MaxCtor : WsClose(i)
    \/ \E i \in 1..MaxCtor : WsMessage(i, Frame(nRecv))
    \/ \E args \in CloseArgs : Close(args)
    \/ Send(Out(nSend))
    \/ \E i \in Iters, sig \in {"none", "live", "aborted"} : MsgStart(i, sig)
    \/ \E i \in Iters : MsgNext(i)
    \/ \E i \in Iters : MsgReturn(i)
    \/ \E i \in Iters : MsgAbort(i)

SpecBuf == InitBuf /\ [][NextBuf]_vars

\* Connection lifecycle: every reconnect configuration, transports that fail to
\* construct, open, fail and close in any order, user connect() and close().
InitConn ==
    \E o \in Options, throws \in BOOLEAN :
        /\ o.recvSize = 1 /\ o.sendSize = 1
        /\ o.recvPolicy = "oldest" /\ o.sendPolicy = "oldest"
        /\ \E l \in {Limits(MaxCtor, 0, 0, 0, 0, 0),
                     Limits(MaxConn + 2, MaxConn, 0, 1, MaxErr, 0)} :
              InitWith(o, l, throws)

NextConn ==
    \/ \E throws \in BOOLEAN : Connect(throws)
    \/ \E t \in TimerIds, throws \in BOOLEAN : TimerFire(t, throws)
    \/ \E i \in 1..MaxCtor : WsOpen(i)
    \/ \E i \in 1..MaxCtor : WsError(i)
    \/ \E i \in 1..MaxCtor : WsClose(i)
    \/ \E args \in CloseArgs : Close(args)
    \/ Send(Out(nSend))

SpecConn == InitConn /\ [][NextConn]_vars

\* A server that is never reached: every reconnect configuration, no call by
\* the user after createSocket, and every connect() either fails to construct
\* its transport or gets one that fails and closes before it opens.
InitRetry ==
    \E o \in Options, throws \in BOOLEAN :
        /\ o.recvSize = 1 /\ o.sendSize = 1
        /\ o.recvPolicy = "oldest" /\ o.sendPolicy = "oldest"
        /\ InitWith(o, Limits(MaxCtor, 0, 0, 0, MaxCtor, 0), throws)

NextRetry ==
    \/ \E t \in TimerIds, throws \in BOOLEAN : TimerFire(t, throws)
    \/ \E i \in 1..MaxCtor : WsError(i)
    \/ \E i \in 1..MaxCtor : WsClose(i)

\* A pending timeout fires and a transport that cannot open closes.
SpecRetry ==
    /\ InitRetry /\ [][NextRetry]_vars
    /\ WF_vars(\E t \in TimerIds, throws \in BOOLEAN : TimerFire(t, throws))
    /\ WF_vars(\E i \in 1..MaxCtor : WsClose(i))

\* calculateReconnectInterval on its own: every reconnect count explored,
\* interval and maxInterval from 0 ms on, both strategies, every value of
\* Math.random().
InitInterval ==
    \E o \in Options :
        /\ ~o.enabled /\ o.attempts = 0
        /\ o.recvSize = 1 /\ o.recvPolicy = "oldest"
        /\ o.sendSize = 1 /\ o.sendPolicy = "oldest"
        /\ InitWith(o, Limits(1, 0, 0, 0, 0, 0), FALSE)

NextInterval ==
    \E a \in Attempts, b \in 0..MaxBase, k \in Backoffs, c \in 0..MaxLimit, r \in Randoms :
        CalculateReconnectInterval(a, b, k, c, r)

SpecInterval == InitInterval /\ [][NextInterval]_vars

\* Message consumers: one open transport, up to MaxIter messages() generators
\* at a time, generators started after earlier ones ended.
InitIter ==
    \E o \in Options :
        /\ ~o.enabled /\ o.attempts = 0
        /\ o.recvSize = MaxCap
        /\ o.sendSize = 1 /\ o.sendPolicy = "oldest"
        /\ InitWith(o, [Limits(1, 0, MaxRecv, 0, 0, MaxIter) EXCEPT !.starts = MaxIter + 1], FALSE)

NextIter ==
    \/ \E i \in 1..MaxCtor : WsOpen(i)
    \/ \E i \in 1..MaxCtor : WsMessage(i, Frame(nRecv))
    \/ \E i \in Iters, sig \in {"none", "live", "aborted"} : MsgStart(i, sig)
    \/ \E i \in Iters : MsgNext(i)
    \/ \E i \in Iters : MsgReturn(i)
    \/ \E i \in Iters : MsgAbort(i)

SpecIter == InitIter /\ [][NextIter]_vars

\* The same with consumers that are `for await` loops: after each item the
\* loop asks for the next one.
SpecIterLive == SpecIter /\ \A i \in Iters : WF_vars(MsgNext(i))

\* One `for await` loop over messages() that is never left: one generator
\* without signal, started at any moment, every capacity and policy.
InitOne ==
    \E o \in Options :
        /\ ~o.enabled /\ o.attempts = 0
        /\ o.sendSize = 1 /\ o.sendPolicy = "oldest"
        /\ InitWith(o, Limits(1, 0, MaxRecv, 0, 0, 1), FALSE)

NextOne ==
    \/ \E i \in 1..MaxCtor : WsOpen(i)
    \/ \E i \in 1..MaxCtor : WsMessage(i, Frame(nRecv))
    \/ \E i \in Iters : MsgStart(i, "none")
    \/ \E i \in Iters : MsgNext(i)

SpecOne == InitOne /\ [][NextOne]_vars /\ \A i \in Iters : WF_vars(MsgNext(i))

\* Consumers with a signal: one transport, up to MaxItems frames, messages()
\* generators and one events() generator of the copy built on waitForItems, each created
\* with a live AbortSignal that may be aborted, every receive capacity and
\* policy.
InitWake ==
    \E o \in Options :
        /\ ~o.enabled /\ o.attempts = 0
        /\ o.sendSize = 1 /\ o.sendPolicy = "oldest"
        /\ InitWith(o, [Limits(1, 0, MaxItems, 0, 0, MaxIter) EXCEPT
                            !.eiter = 1, !.estarts = 1], FALSE)

NextWake ==
    \/ \E i \in 1..MaxCtor : WsOpen(i)
    \/ \E i \in 1..MaxCtor : WsMessage(i, Frame(nRecv))
    \/ \E i \in Iters : MsgStart(i, "live")
    \/ \E i \in Iters : MsgNext(i)
    \/ \E i \in Iters : MsgAbort(i)
    \/ \E j \in Iters : EvStart(j, "live")
    \/ \E j \in Iters : EvNext(j)
    \/ \E j \in Iters : EvAbort(j)

SpecWake == InitWake /\ [][NextWake]_vars

\* Event consumers: one transport that opens and receives up to MaxEv frames
\* with no messages() generator, so that every frame emits one event; events()
\* generators of either copy of generators.ts, one at a time over a long
\* history or MaxIter at a time over a short one.
InitEv ==
    \E o \in Options, g \in Builds :
        /\ ~o.enabled /\ o.attempts = 0
        /\ o.recvSize = 1 /\ o.recvPolicy = "oldest"
        /\ o.sendSize = 1 /\ o.sendPolicy = "oldest"
        /\ \E l \in {[Limits(1, 0, MaxEv, 0, 0, 0) EXCEPT !.eiter = 1, !.estarts = 2],
                     [Limits(1, 0, 3, 0, 0, 0) EXCEPT !.eiter = MaxIter,
                                                      !.estarts = MaxIter + 1]} :
              InitWith([o EXCEPT !.generators = g], l, FALSE)

NextEv ==
    \/ \E i \in 1..MaxCtor : WsOpen(i)
    \/ \E i \in 1..MaxCtor : WsMessage(i, Frame(nRecv))
    \/ \E j \in Iters, sig \in {"none", "live", "aborted"} : EvStart(j, sig)
    \/ \E j \in Iters : EvNext(j)
    \/ \E j \in Iters : EvReturn(j)
    \/ \E j \in Iters : EvAbort(j)
    \/ \E j \in Iters : EvPoll(j)

SpecEv == InitEv /\ [][NextEv]_vars

\* Callbacks: one open transport, every receive policy at capacity 1,
\* callbacks that register and unsubscribe in any order, one of which always
\* throws; message callbacks next to a messages() generator, or event
\* callbacks next to an events() generator.
InitCb ==
    \E o \in Options :
        /\ ~o.enabled /\ o.attempts = 0
        /\ o.recvSize = 1
        /\ o.sendSize = 1 /\ o.sendPolicy = "oldest"
        /\ \E l \in {[Limits(1, 0, 3, 0, 0, 1) EXCEPT !.mcb = MaxCb, !.ecb = 1],
                     [Limits(1, 0, 2, 0, 0, 0) EXCEPT !.eiter = 1, !.estarts = 1,
                                                      !.mcb = 1, !.ecb = MaxCb]} :
              InitWith(o, l, FALSE)

NextCb ==
    \/ \E i \in 1..MaxCtor : WsOpen(i)
    \/ \E i \in 1..MaxCtor : WsMessage(i, Frame(nRecv))
    \/ \E i \in Iters : MsgStart(i, "none")
    \/ \E j \in Iters : EvStart(j, "none")
    \/ \E j \in Iters : EvNext(j)
    \/ \E c \in Callbacks : OnMessage(c)
    \/ \E c \in Callbacks : OffMessage(c)
    \/ \E c \in Callbacks : OnEvent(c)
    \/ \E c \in Callbacks : OffEvent(c)

SpecCb == InitCb /\ [][NextCb]_vars

\* Sending: every send policy and capacity, text, empty, object and binary
\* payloads, sent before and after the transport opens, across close() and a
\* connect() by the user.
InitSend ==
    \E o \in Options :
        /\ ~o.enabled /\ o.attempts = 0
        /\ o.recvSize = 1 /\ o.recvPolicy = "oldest"
        /\ \E l \in {Limits(1, 0, 0, MaxSend, 0, 0), Limits(MaxConn + 1, MaxConn, 0, 1, 0, 0)} :
              InitWith(o, l, FALSE)

NextSend ==
    \/ Connect(FALSE)
    \/ \E i \in 1..MaxCtor : WsOpen(i)
    \/ \E i \in 1..MaxCtor : WsClose(i)
    \/ \E args \in CloseArgs : Close(args)
    \/ \E data \in SendValues : Send(data)

SpecSend == InitSend /\ [][NextSend]_vars

\* The connection handler over a state whose owner installs and aborts
\* AbortControllers: connect() by the user, retries, close(); or one
\* transport with consumers and callbacks of both kinds around close().
InitHandler ==
    \E o \in Options, throws \in BOOLEAN :
        /\ o.recvSize = MaxCap /\ o.recvPolicy = "oldest"
        /\ o.sendSize = 1 /\ o.sendPolicy = "oldest"
        /\ \/ InitWith(o, [Limits(MaxConn + 2, MaxConn, 0, 0, 0, 0) EXCEPT !.ctl = MaxCtl],
                        throws)
           \/ /\ ~o.enabled /\ o.attempts = 0 /\ ~throws
              /\ InitWith(o, [Limits(1, 0, 2, 1, 0, 1) EXCEPT !.eiter = 1, !.estarts = 1,
                                                             !.mcb = 1, !.ecb = 1, !.ctl = MaxCtl],
                          throws)

NextHandler ==
    \/ \E throws \in BOOLEAN : Connect(throws)
    \/ \E t \in TimerIds, throws \in BOOLEAN : TimerFire(t, throws)
    \/ \E i \in 1..MaxCtor : WsOpen(i)
    \/ \E i \in 1..MaxCtor : WsClose(i)
    \/ \E i \in 1..MaxCtor : WsMessage(i, Frame(nRecv))
    \/ \E args \in CloseArgs : Close(args)
    \/ Send(Out(nSend))
    \/ \E aborted \in BOOLEAN : SetAbortController(aborted)
    \/ \E k \in 1..MaxCtl : Abort(k)
    \/ \E i \in Iters : MsgStart(i, "none")
    \/ \E i \in Iters : MsgNext(i)
    \/ \E j \in Iters : EvStart(j, "none")
    \/ \E c \in Callbacks : OnMessage(c)
    \/ \E c \in Callbacks : OnEvent(c)

SpecHandler == InitHandler /\ [][NextHandler]_vars

\* waitForItems on its own: up to MaxWait calls on one collection and one
\* AbortSignal, a producer, a consumer, the abort and the poll timeouts.
InitWait ==
    \E o \in Options :
        /\ ~o.enabled /\ o.attempts = 0
        /\ o.recvSize = 1 /\ o.recvPolicy = "oldest"
        /\ o.sendSize = 1 /\ o.sendPolicy = "oldest"
        /\ InitWith(o, Limits(1, 0, 0, 0, 0, 0), FALSE)

NextWait ==
    \/ \E signal \in BOOLEAN : WaitForItems(signal)
    \/ \E notify \in BOOLEAN : Push(notify)
    \/ Shift
    \/ AbortSignal
    \/ \E k \in 1..MaxWait : PollFire(k)

SpecWait == InitWait /\ [][NextWait]_vars

\* sendMessages / receiveMessages: one call over an input of up to MaxInput
\* items that ends or raises, with or without a signal, on a transport that
\* opens at any moment, with a messages() generator; capacity 1 and every
\* policy on both sides.
InitPump ==
    \E o \in Options :
        /\ ~o.enabled /\ o.attempts = 0
        /\ o.recvSize = 1 /\ o.sendSize = 1
        /\ InitWith(o, [Limits(1, 0, MaxInput, MaxInput, 0, 1) EXCEPT !.input = MaxInput],
                    FALSE)

NextPump ==
    \/ \E i \in 1..MaxCtor : WsOpen(i)
    \/ \E i \in Iters : MsgStart(i, "none")
    \/ \E i \in Iters : MsgNext(i)
    \/ \E kind \in {"send", "receive"}, len \in 0..MaxInput, raises \in BOOLEAN,
          signal \in {"none", "live", "aborted"} : StartPump(kind, len, raises, signal)
    \/ PumpNext
    \/ PumpAbort

SpecPump == InitPump /\ [][NextPump]_vars

\* ================================================================ claims
Dropped(events) == SelectSeq(events, LAMBDA e : e.type = "dropped")
OfType(events, type) == SelectSeq(events, LAMBDA e : e.type = type)
LastN(seq, n) == IF Len(seq) <= n THEN seq ELSE SubSeq(seq, Len(seq) - n + 1, Len(seq))
receivedEvent(data) == createEvent("received", [NoMeta EXCEPT !.message = parseMessage(data)])

\* C1: in every reachable state, whatever the overflow policy and the configured
\* capacity, the receive buffer and the send queue are no longer than their
\* capacity.  (Stated as claimed; it fails for capacity 0 under `oldest`.)
C1_WithinCapacity ==
    /\ Len(messageBuffer) <= opts.recvSize
    /\ Len(messageQueue) <= opts.sendSize

\* The same for configured capacities of at least 1 and for the other policies.
C1_WithinPositiveCapacity ==
    /\ (opts.recvSize >= 1 \/ opts.recvPolicy # "oldest") => Len(messageBuffer) <= opts.recvSize
    /\ (opts.sendSize >= 1 \/ opts.sendPolicy # "oldest") => Len(messageQueue) <= opts.sendSize

\* C2: with no active messages() generator the receive buffer is empty; a
\* receive() in that situation appends nothing and still emits its received event.
C2_NoBufferWithoutConsumer ==
    /\ activeMessageIterators = 0 => messageBuffer = <<>>
    /\ (lastOp.op = "receive" /\ activeMessageIterators = 0)
           => emitted = <<receivedEvent(lastOp.arg)>>

C2_Witness ==
    /\ lastOp.op = "receive"
    /\ activeMessageIterators = 0
    /\ mpc[1] = "done"
    /\ messageBuffer = <<>>

\* C3: under `oldest` with capacity N >= 1 and an active consumer, the buffer is
\* the last min(k, N) of the k payloads that arrived since it was last drained,
\* in arrival order; an arrival at capacity evicts exactly the head and emits
\* exactly one dropped event carrying the evicted payload, an arrival below
\* capacity emits none.
OldestCase ==
    opts.recvPolicy = "oldest" /\ opts.recvSize >= 1 /\ activeMessageIterators > 0

C3_Buffer == OldestCase => messageBuffer = LastN(arrivals, opts.recvSize)

C3_Arrival ==
    (OldestCase /\ lastOp'.op = "receive") =>
        IF Len(messageBuffer) >= opts.recvSize
        THEN /\ Dropped(emitted') = <<createDroppedEvent("buffer_full", "oldest",
                                          Head(messageBuffer), opts.recvSize, "receive")>>
             /\ messageBuffer' = Append(Tail(messageBuffer), lastOp'.arg)
        ELSE Dropped(emitted') = <<>>

C3_OldestKeepsLatest == []C3_Buffer /\ [][C3_Arrival]_vars

C3_Witness ==
    /\ opts.recvPolicy = "oldest" /\ opts.recvSize = 2
    /\ activeMessageIterators = 1 /\ mpc[1] = "yielded"
    /\ lastOp.op = "receive" /\ lastOp.arg = "msg3"
    /\ arrivals = <<"msg1", "msg2", "msg3">>
    /\ messageBuffer = <<"msg2", "msg3">>
    /\ Dropped(emitted) = <<createDroppedEvent("buffer_full", "oldest", "msg1", 2, "receive")>>

\* C4: under `newest` an arrival at capacity leaves the buffer / queue as it
\* was, does not raise and emits exactly one dropped event carrying the rejected
\* item and the buffer type; an arrival below capacity is appended (or handed to
\* the generator waiting for it) without a dropped event.
C4_Receive ==
    (lastOp'.op = "receive" /\ opts.recvPolicy = "newest" /\ activeMessageIterators > 0) =>
        /\ ~threw'
        /\ IF Len(messageBuffer) >= opts.recvSize
           THEN /\ messageBuffer' = messageBuffer
                /\ Dropped(emitted') = <<createDroppedEvent("buffer_full", "newest",
                                             lastOp'.arg, opts.recvSize, "receive")>>
           ELSE /\ Dropped(emitted') = <<>>
                /\ IF Live(messageResolvers) = <<>>
                   THEN messageBuffer' = Append(messageBuffer, lastOp'.arg)
                   ELSE /\ mout'[Head(Live(messageResolvers))] = parseMessage(lastOp'.arg)
                        /\ messageBuffer' = messageBuffer

C4_Send ==
    (lastOp'.op = "send" /\ opts.sendPolicy = "newest" /\ ~isOpen(ws, socks)) =>
        /\ ~threw'
        /\ IF Len(messageQueue) >= opts.sendSize
           THEN /\ messageQueue' = messageQueue
                /\ emitted' = <<createDroppedEvent("send_queue_full", "newest",
                                    lastOp'.arg, opts.sendSize, "send")>>
           ELSE /\ emitted' = <<>>
                /\ messageQueue' = Append(messageQueue, lastOp'.arg)

C4_NewestRejectsArrival == [][C4_Receive /\ C4_Send]_vars

C4_Witness ==
    /\ opts.sendPolicy = "newest" /\ opts.sendSize = 2
    /\ lastOp = Op("send", 0, "msg3")
    /\ ~threw
    /\ messageQueue = <<"msg1", "msg2">>
    /\ emitted = <<createDroppedEvent("send_queue_full", "newest", "msg3", 2, "send")>>

\* C5: under `error` an add attempt on a full buffer / queue raises to the
\* caller after emitting a dropped event (buffer_overflow / send_queue_overflow,
\* no dropped item); the contents are unchanged and the length is exactly the
\* capacity.  An attempt below capacity does not raise.
C5_Receive ==
    (lastOp'.op = "receive" /\ opts.recvPolicy = "error" /\ activeMessageIterators > 0) =>
        IF Len(messageBuffer) >= opts.recvSize
        THEN /\ threw'
             /\ emitted' = <<receivedEvent(lastOp'.arg),
                             createDroppedEvent("buffer_overflow", "error", Undefined,
                                                opts.recvSize, "receive")>>
             /\ messageBuffer' = messageBuffer
             /\ Len(messageBuffer') = opts.recvSize
        ELSE ~threw' /\ Dropped(emitted') = <<>>

C5_Send ==
    (lastOp'.op = "send" /\ opts.sendPolicy = "error" /\ ~isOpen(ws, socks)) =>
        IF Len(messageQueue) >= opts.sendSize
        THEN /\ threw'
             /\ emitted' = <<createDroppedEvent("send_queue_overflow", "error", Undefined,
                                                opts.sendSize, "send")>>
             /\ messageQueue' = messageQueue
             /\ Len(messageQueue') = opts.sendSize
        ELSE ~threw' /\ emitted' = <<>>

C5_ErrorRaisesWhenFull == [][C5_Receive /\ C5_Send]_vars

C5_Witness ==
    /\ opts.sendPolicy = "error" /\ opts.sendSize = 2
    /\ lastOp = Op("send", 0, "msg3")
    /\ threw
    /\ messageQueue = <<"msg1", "msg2">>
    /\ emitted = <<createDroppedEvent("send_queue_overflow", "error", Undefined, 2, "send")>>

closeEvent(code, reason, wasClean) ==
    createEvent("close", [NoMeta EXCEPT !.code = code, !.reason = reason, !.wasClean = wasClean])

\* C6: close(code, reason) on an open connection yields exactly one closed
\* event for that transport, carrying the code and reason asked for and
\* wasClean = true; and, unless the user calls connect() again, close() is
\* followed by no reconnecting event, no armed retry timer and no new transport.
C6_ManualClose ==
    /\ \A j \in 1..Len(socks) :
          socks[j].asked # NoArgs =>
              /\ socks[j].closeEvents = IF socks[j].readyState = CLOSED THEN 1 ELSE 0
              /\ lastOp = Op("close", j, "") =>
                     emitted = <<closeEvent(IF socks[j].asked.code = -1 THEN 1000
                                            ELSE socks[j].asked.code,
                                            IF socks[j].asked.reason = Undefined THEN ""
                                            ELSE socks[j].asked.reason,
                                            TRUE)>>
    /\ (hist.closeCtor >= 0 /\ ~hist.connectAfterClose) =>
          /\ timers = {}
          /\ reconnectTimer = 0
          /\ OfType(emitted, "reconnect") = <<>>
          /\ ctorCalls = hist.closeCtor

C6_Witness ==
    /\ opts.enabled /\ opts.attempts >= 1
    /\ lastOp = Op("close", 1, "")
    /\ socks[1].asked = [code |-> 1000, reason |-> "bye"]
    /\ socks[1].closeEvents = 1
    /\ emitted = <<closeEvent(1000, "bye", TRUE)>>
    /\ timers = {}
    /\ ctorCalls = 1

\* C7: once close() has been called no retry timer is ever armed and no
\* reconnecting event is ever emitted, whatever happens afterwards.  (Stated as
\* claimed; a later connect() whose constructor throws schedules a retry.)
C7_NoRetryAfterClose ==
    hist.closeCtor >= 0 => (timers = {} /\ OfType(emitted, "reconnect") = <<>>)

\* C8: 0 <= reconnectCount <= reconnect.attempts, and no reconnect event of
\* either flavour carries an attempt beyond reconnect.attempts.
C8_RetryBounded ==
    /\ 0 <= reconnectCount /\ reconnectCount <= opts.attempts
    /\ \A k \in 1..Len(emitted) :
          emitted[k].type = "reconnect" => emitted[k].meta.attempt <= opts.attempts

C8_Witness ==
    /\ opts.attempts = 2
    /\ reconnectCount = 2
    /\ lastOp.op = "timer"
    /\ emitted[1] = reconnectEvent(2, FALSE)

C10_Open == lastOp'.op = "open" => reconnectCount' = 0

C10_ClosureAfterOpen ==
    (/\ lastOp.op = "open" /\ lastOp'.op = "close"
     /\ socks[lastOp'.id].readyState # CLOSING
     /\ ~isManualClose /\ opts.enabled /\ opts.attempts >= 1) =>
        OfType(emitted', "reconnect") = <<reconnectEvent(1, TRUE)>>

C10_OpenResetsRetryCount == [][C10_Open /\ C10_ClosureAfterOpen]_vars

C10_Witness ==
    /\ hist.userConnects = 0 /\ hist.budgetReset /\ hist.closures = 2
    /\ lastOp.op = "close"
    /\ reconnectCount = 0
    /\ OfType(emitted, "reconnect") = <<reconnectEvent(1, TRUE)>>

\* C11: at most one retry timer is pending, and it is the one state.reconnectTimer
\* names; a timer that fires is the current one, fires once, emits exactly one
\* attempt-in-progress reconnect event and makes exactly one constructor call.
C11_Pending ==
    /\ Cardinality(timers) <= 1
    /\ timers \subseteq {reconnectTimer}

C11_Fire ==
    lastOp'.op = "timer" =>
        /\ lastOp'.id = reconnectTimer
        /\ lastOp'.id \in timers /\ lastOp'.id \notin timers'
        /\ Len(SelectSeq(emitted', LAMBDA e : e.type = "reconnect" /\ ~e.meta.hasInterval)) = 1
        /\ ctorCalls' = ctorCalls + 1

C11_OnePendingTimer == []C11_Pending /\ [][C11_Fire]_vars

C11_Witness ==
    /\ lastOp.op = "timer" /\ lastOp.id = 2
    /\ hist.userConnects = 1
    /\ ctorCalls = 3
    /\ timerSeq = 2
    /\ timers = {}

\* C12: when the last active messages() generator ends (return() or abort,
\* active count 1 -> 0) the receive buffer is emptied, and no generator ever
\* yields a payload that was received before the active count last fell to 0.
C12_Cleared ==
    (activeMessageIterators = 1 /\ activeMessageIterators' = 0) => messageBuffer' = <<>>

C12_Fresh == mhist.stale = 0 /\ ~mhist.staleYield

C12_BufferClearedOnLastExit == []C12_Fresh /\ [][C12_Cleared]_vars

C12_Witness ==
    /\ mhist.discarded
    /\ mhist.starts >= 2
    /\ lastOp.op = "receive"
    /\ mpc[1] = "yielded" /\ mout[1] = parseMessage(lastOp.arg)

Registered(cbs) == {cbs[k] : k \in 1..Len(cbs)}

\* C13, as claimed: whenever no events() generator is active, eventQueue holds
\* at most MAX_RECENT_EVENTS events, and an emit in that situation leaves the
\* most recent MAX_RECENT_EVENTS of the queued and the new events, in emission
\* order; also after events() generators have run and ended.  (The polling
\* eventsGenerator leaves a longer queue behind when it ends.)
C13_Cap == activeEventIterators = 0 => Len(eventQueue) <= MAX_RECENT_EVENTS

C13_Emit ==
    (activeEventIterators = 0 /\ emitted' # <<>>) =>
        eventQueue' = LastN(eventQueue \o emitted', MAX_RECENT_EVENTS)

C13_RecentEventsCapped == []C13_Cap /\ [][C13_Emit]_vars

\* The same for the eventsGenerator built on waitForItems.
C13_CappedWithWaitForItems ==
    /\ [](opts.generators = "waitForItems" => C13_Cap)
    /\ [][opts.generators = "waitForItems" => C13_Emit]_vars

\* C14: with an active events() generator the emit() calls of a macrotask append
\* every event to eventQueue, whatever its length, invoke every resolver that
\* was in eventResolvers and leave eventResolvers empty; once the generators
\* they woke have resumed, each has taken one event off the head, in the order
\* their resolvers were registered, and the rest is still queued.  (A resolver
\* left behind by a wait that was resolved on abort is invoked too and wakes
\* nobody.)
C14_Emit ==
    (activeEventIterators > 0 /\ emitted' # <<>>) =>
        LET all == eventQueue \o emitted'
            live == Live(eventResolvers)
            n == IF Len(live) < Len(all) THEN Len(live) ELSE Len(all)
        IN  /\ esync'.queue = all
            /\ esync'.invoked = eventResolvers
            /\ esync'.res = <<>>
            /\ \A k \in 1..n : /\ epc'[live[k]] = "yielded"
                                /\ eout'[live[k]] = all[k]
            /\ eventQueue' = SubSeq(all, n + 1, Len(all))

C14_EmitWithConsumers == [][C14_Emit]_vars

C14_Witness ==
    /\ lastOp.op = "receive"
    /\ activeEventIterators = 2
    /\ esync.invoked = <<2, 1>>
    /\ esync.res = <<>>
    /\ epc[2] = "yielded" /\ eout[2] = receivedEvent(lastOp.arg)
    /\ eventResolvers = <<1>>

C14_LongQueue ==
    /\ lastOp.op = "receive"
    /\ activeEventIterators = 1
    /\ Len(eventQueue) > MAX_RECENT_EVENTS

\* C15, as claimed: when the number of active events() generators falls from 1
\* to 0 eventQueue is emptied, and no events() generator ever yields an event
\* that was emitted before the count last fell to 0.  (The polling
\* eventsGenerator keeps the queue.)
C15_Cleared ==
    (activeEventIterators = 1 /\ activeEventIterators' = 0) => eventQueue' = <<>>

C15_Fresh == ehist.stale = 0 /\ ~ehist.staleYield

C15_QueueClearedOnLastExit == []C15_Fresh /\ [][C15_Cleared]_vars

\* The same for the eventsGenerator built on waitForItems.
C15_ClearedWithWaitForItems ==
    /\ [](opts.generators = "waitForItems" => C15_Fresh)
    /\ [][opts.generators = "waitForItems" => C15_Cleared]_vars

C15_Restarted ==
    /\ opts.generators = "waitForItems"
    /\ ehist.discarded /\ ehist.starts = 2
    /\ epc[1] = "yielded"

\* C16: a callback that throws changes nothing else.  On receive() every
\* registered message callback is handed the payload, receive() raises only for
\* an overflow under `error`, and a payload that fits is appended to the buffer
\* or handed to the generator waiting for it.  On emit() every registered event
\* callback is handed every event, and the events are queued as C13 and C14 say.
C16_Receive ==
    lastOp'.op = "receive" =>
        /\ \A c \in Registered(messageCallbacks) : mcbGot'[c] = <<parseMessage(lastOp'.arg)>>
        /\ threw' = (/\ activeMessageIterators > 0 /\ opts.recvPolicy = "error"
                     /\ Len(messageBuffer) >= opts.recvSize)
        /\ (activeMessageIterators > 0 /\ Len(messageBuffer) < opts.recvSize) =>
               IF Live(messageResolvers) = <<>>
               THEN messageBuffer' = Append(messageBuffer, lastOp'.arg)
               ELSE /\ mout'[Head(Live(messageResolvers))] = parseMessage(lastOp'.arg)
                    /\ mpc'[Head(Live(messageResolvers))] = "yielded"

C16_Emit ==
    emitted' # <<>> =>
        /\ \A c \in Registered(eventCallbacks) : ecbGot'[c] = emitted'
        /\ esync'.queue = IF activeEventIterators > 0 THEN eventQueue \o emitted'
                          ELSE LastN(eventQueue \o emitted', MAX_RECENT_EVENTS)
        /\ esync'.invoked = IF activeEventIterators > 0 THEN eventResolvers ELSE <<>>

C16_CallbackErrorsIsolated == [][C16_Receive /\ C16_Emit]_vars

C16_Witness ==
    /\ lastOp.op = "receive"
    /\ messageCallbacks = <<1, 2>>
    /\ 1 \in Throwers
    /\ mcbGot[2] = <<parseMessage(lastOp.arg)>>
    /\ ~threw
    /\ mpc[1] = "yielded" /\ mout[1] = parseMessage(lastOp.arg)

C16_EventWitness ==
    /\ lastOp.op = "receive"
    /\ eventCallbacks = <<1, 2>>
    /\ ecbGot[2] = emitted
    /\ epc[1] = "yielded" /\ eout[1] = receivedEvent(lastOp.arg)

\* C17: receive() hands the payload once to every message callback registered
\* at that moment and to no other, with or without an active generator and
\* whatever the overflow outcome; a callback whose unsubscribe closure has been
\* called gets nothing.  The same for event callbacks and emitted events.
C17_Receive ==
    lastOp'.op = "receive" =>
        \A c \in Callbacks :
            /\ mcbGot'[c] = IF c \in Registered(messageCallbacks)
                            THEN <<parseMessage(lastOp'.arg)>> ELSE <<>>
            /\ c \in unsub.message => mcbGot'[c] = <<>>

C17_Emit ==
    \A c \in Callbacks :
        /\ ecbGot'[c] = IF c \in Registered(eventCallbacks) THEN emitted' ELSE <<>>
        /\ c \in unsub.event => ecbGot'[c] = <<>>

C17_CallbacksGetEveryItem == [][C17_Receive /\ C17_Emit]_vars

C17_Witness ==
    /\ lastOp.op = "receive"
    /\ threw
    /\ activeMessageIterators = 1
    /\ messageCallbacks = <<2>> /\ unsub.message = {1}
    /\ mcbGot[2] = <<parseMessage(lastOp.arg)>> /\ mcbGot[1] = <<>>

\* C18, as claimed: when the open hook of the current transport fires, the open
\* event is followed by one sent event per queued payload, the payloads are
\* transmitted in queueing order and messageQueue is empty afterwards; flushQueue
\* with state.ws absent or not open transmits nothing and leaves the queue as
\* it was.  (A queued empty string is removed without being transmitted.)
C18_Flush ==
    (lastOp'.op = "open" /\ ws = lastOp'.id) =>
        /\ emitted' = <<createEvent("open", NoMeta)>> \o sentEvents(messageQueue)
        /\ socks'[ws].sent = socks[ws].sent \o messageQueue
        /\ messageQueue' = <<>>

C18_NoFlush ==
    (lastOp'.op = "open" /\ ~isOpen(ws, socks')) =>
        /\ emitted' = <<createEvent("open", NoMeta)>>
        /\ messageQueue' = messageQueue
        /\ \A k \in 1..Len(socks) : socks'[k].sent = socks[k].sent

C18_FlushOnOpen == [][C18_Flush /\ C18_NoFlush]_vars

\* The same when no queued payload is the empty string.
C18_NonEmptyFlushed ==
    [][(\A k \in 1..Len(messageQueue) : messageQueue[k] # "") => (C18_Flush /\ C18_NoFlush)]_vars

C18_Flushed ==
    /\ lastOp.op = "open" /\ ws = lastOp.id
    /\ Len(socks[ws].sent) = 2
    /\ Len(OfType(emitted, "sent")) = 2

C18_NotFlushed ==
    /\ lastOp.op = "open" /\ ws # lastOp.id
    /\ messageQueue # <<>>

\* C19: send(data) on an open transport transmits serializeMessage(data) at
\* once, leaves messageQueue alone, does not raise and emits exactly one sent
\* event carrying data itself: for an object, the object and not its JSON text.
C19_Send ==
    (lastOp'.op = "send" /\ isOpen(ws, socks)) =>
        /\ socks'[ws].sent = Append(socks[ws].sent, serializeMessage(lastOp'.arg))
        /\ lastOp'.arg = ObjectA => socks'[ws].sent[Len(socks'[ws].sent)] = JsonA
        /\ messageQueue' = messageQueue
        /\ ~threw'
        /\ emitted' = <<sentEvent(lastOp'.arg)>>

C19_SendWhileOpen == [][C19_Send]_vars

C19_Witness ==
    /\ lastOp = Op("send", 0, ObjectA)
    /\ isOpen(ws, socks)
    /\ socks[ws].sent = <<JsonA>>
    /\ emitted = <<createEvent("sent", [NoMeta EXCEPT !.message = ObjectA])>>
    /\ ObjectA # JsonA

\* C20, as claimed: send(data) with the transport absent, connecting, closing
\* or closed transmits nothing and emits no sent event; serializeMessage(data) is
\* what the overflow policy is asked about, and it is appended at the tail
\* whenever the queue has room.  (A binary payload is queued as the text
\* String() makes of it.)
C20_Send ==
    (lastOp'.op = "send" /\ ~isOpen(ws, socks)) =>
        LET item == serializeMessage(lastOp'.arg)
        IN  /\ \A k \in 1..Len(socks) : socks'[k].sent = socks[k].sent
            /\ OfType(emitted', "sent") = <<>>
            /\ Len(messageQueue) < opts.sendSize => messageQueue' = Append(messageQueue, item)
            /\ (Len(messageQueue) >= opts.sendSize /\ opts.sendPolicy = "newest") =>
                   emitted' = <<createDroppedEvent("send_queue_full", "newest", item,
                                                   opts.sendSize, "send")>>
            /\ (Len(messageQueue) >= opts.sendSize /\ opts.sendSize >= 1
                    /\ opts.sendPolicy = "oldest") =>
                   messageQueue' = Append(Tail(messageQueue), item)

C20_SendWhileNotOpen == [][C20_Send]_vars

\* The same for payloads that are not binary.
C20_TextQueued == [][~isBinary(lastOp'.arg) => C20_Send]_vars

C20_Queued ==
    /\ lastOp = Op("send", 0, ObjectA)
    /\ ws # 0 /\ socks[ws].readyState = CONNECTING
    /\ messageQueue = <<"msg1", JsonA>>

\* ------------------------------------------------------------------ C21
\* C21: when close(code, reason) returns, isManualClose is true, no retry
\* timer is pending and the handle is null, state.ws is null and the closing
\* handshake with that code and reason has been started on the transport it
\* referred to (no other transport is touched), state.abortController is null
\* and the controller it held is aborted, messageQueue is empty; the receive
\* buffer, the event queue, the callback sets and the consumer counters are
\* as they were.
C21_Close ==
    lastOp'.op = "user.close" =>
        /\ isManualClose'
        /\ reconnectTimer' = 0 /\ timers' = {}
        /\ ws' = 0
        /\ Len(socks') = Len(socks)
        /\ \A i \in 1..Len(socks) : i # ws => socks'[i] = socks[i]
        /\ (ws # 0 /\ socks[ws].readyState \in {CONNECTING, OPEN}) =>
               /\ socks'[ws].readyState = CLOSING
               /\ socks'[ws].closeCode = IF lastOp'.id = -1 THEN 1000 ELSE lastOp'.id
               /\ socks'[ws].closeReason = IF lastOp'.arg = Undefined THEN "" ELSE lastOp'.arg
               /\ socks'[ws].sent = socks[ws].sent
        /\ abortController' = 0
        /\ abortController # 0 => controllers'[abortController]
        /\ \A k \in 1..Len(controllers) : k # abortController => controllers'[k] = controllers[k]
        /\ messageQueue' = <<>>
        /\ UNCHANGED <<messageBuffer, eventQueue, messageCallbacks, eventCallbacks,
                       activeMessageIterators, activeEventIterators, reconnectCount>>

C21_CloseEffect == [][C21_Close]_vars

\* close() has just returned: it found a controller and aborted it, started
\* the handshake on a transport, and left a buffered payload, recent events,
\* callbacks and consumers of both kinds in place.
C21_Witness ==
    /\ lastOp.op = "user.close"
    /\ controllers = <<TRUE>> /\ abortController = 0
    /\ \E i \in 1..Len(socks) : socks[i].readyState = CLOSING /\ socks[i].closeCode = 1000
    /\ messageBuffer # <<>> /\ eventQueue # <<>>
    /\ messageCallbacks # <<>> /\ eventCallbacks # <<>>
    /\ activeMessageIterators = 1 /\ activeEventIterators = 1

\* close() has just cancelled a pending retry.
C21_TimerCancelled ==
    /\ lastOp.op = "user.close"
    /\ timerSeq > reconnectCount /\ timers = {} /\ ~hist.ctorThrew /\ hist.closeCtor = ctorCalls
    /\ timerSeq = 1 /\ reconnectCount = 0 /\ ctorCalls = 1

\* ------------------------------------------------------------------ C22
\* C22: connect() called while state.abortController is aborted constructs
\* no transport, emits no event, arms no timer and changes no field of the
\* state.
C22_Connect ==
    (lastOp'.op = "connect" /\ Aborted) =>
        /\ emitted' = <<>>
        /\ ~threw'
        /\ UNCHANGED <<connVars, abortVars, msgVars, messageQueue, eventQueue,
                       messageCallbacks, eventCallbacks>>

C22_AbortedConnectIsNoOp == [][C22_Connect]_vars

\* connect() has just returned at its first line; the state holds an aborted
\* controller and no live transport.
C22_Witness ==
    /\ lastOp.op = "connect"
    /\ Aborted
    /\ hist.userConnects = 1
    /\ \A i \in 1..Len(socks) : socks[i].readyState = CLOSED

\* ------------------------------------------------------------------ C23
\* C23, as claimed: a wait resolves exactly once; once it has resolved, its
\* resolver is not in the Set of resolvers, its abort listener is not on the
\* signal and its poll timeout is not pending; and nothing that happens later
\* changes it.
C23_Once ==
    \A k \in 1..Len(wait.calls) :
        wait.calls[k].settled = IF wait.calls[k].resolved THEN 1 ELSE 0

C23_Clean ==
    \A k \in 1..Len(wait.calls) :
        wait.calls[k].resolved =>
            /\ \A n \in 1..Len(wait.resolvers) : wait.resolvers[n] # k
            /\ \A n \in 1..Len(wait.listeners) : wait.listeners[n] # k
            /\ k \notin wait.timeouts

C23_Later ==
    \A k \in 1..Len(wait.calls) : wait.calls[k].resolved => wait'.calls[k] = wait.calls[k]

C23_ResolvesOnceAndCleansUp == [](C23_Once /\ C23_Clean) /\ [][C23_Later]_vars

\* The part that holds: exactly one resolution, later triggers without effect.
C23_ResolvesOnce == []C23_Once /\ [][C23_Later]_vars

\* The same through messages({signal}): a generator that left on abort has no
\* resolver in messageResolvers.
C23_NoResolverAfterAbort ==
    \A i \in Iters : mpc[i] = "done" =>
        \A n \in 1..Len(messageResolvers) : messageResolvers[n] # 0 - i

\* ------------------------------------------------------------------ C24
\* C24: a messages() generator started with an aborted signal ends without
\* yielding and leaves the count of active generators as it was; one blocked
\* in waitForItems when its signal is aborted ends at once and the count goes
\* down by one; one suspended at a yield ends at its next pull, without
\* yielding, whatever the buffer holds, and the count goes down by one.  A
\* generator whose signal is aborted never waits, never yields again, and ends.
C24_Step ==
    \A i \in Iters :
        /\ lastOp' = Op("messages.start", i, "aborted") =>
               /\ mpc'[i] = "done" /\ mout'[i] = Undefined
               /\ activeMessageIterators' = activeMessageIterators
        /\ (lastOp' = Op("messages.abort", i, "") /\ mpc[i] = "waiting") =>
               /\ mpc'[i] = "done"
               /\ activeMessageIterators' = activeMessageIterators - 1
        /\ (lastOp' = Op("messages.next", i, "") /\ msig[i] = "aborted") =>
               /\ mpc'[i] = "done"
               /\ activeMessageIterators' = activeMessageIterators - 1
        /\ (msig[i] = "aborted" /\ ~(lastOp'.op = "messages.start" /\ lastOp'.id = i)) =>
               /\ mout'[i] = mout[i]
               /\ mpc'[i] \in {mpc[i], "done"}

C24_NeverWaits == \A i \in Iters : msig[i] = "aborted" => mpc[i] \in {"done", "yielded"}

C24_Ends == \A i \in Iters : (msig[i] = "aborted") ~> (mpc[i] = "done")

C24_AbortEndsMessages == []C24_NeverWaits /\ [][C24_Step]_vars /\ C24_Ends

\* A generator aborted between two items has just been pulled and has ended
\* although the buffer, shared with another generator, holds a payload.
C24_Witness ==
    /\ lastOp.op = "messages.next"
    /\ msig[lastOp.id] = "aborted" /\ mpc[lastOp.id] = "done"
    /\ mout[lastOp.id] # Undefined
    /\ messageBuffer # <<>>
    /\ activeMessageIterators = 1

\* A generator blocked on an empty buffer has just been aborted.
C24_BlockedWitness ==
    /\ lastOp.op = "messages.abort"
    /\ mpc[lastOp.id] = "done" /\ mout[lastOp.id] = Undefined
    /\ activeMessageIterators = 0

\* The same for events(), in either copy of generators.ts: the polling copy
\* notices the abort of a blocked generator at the next tick of its interval.
C24_EventsStep ==
    \A j \in Iters :
        /\ lastOp' = Op("events.start", j, "aborted") =>
               /\ epc'[j] = "done" /\ eout'[j] = Undefined
               /\ activeEventIterators' = activeEventIterators
        /\ (lastOp' = Op("events.abort", j, "") /\ epc[j] = "waiting"
                /\ opts.generators = "waitForItems") =>
               /\ epc'[j] = "done"
               /\ activeEventIterators' = activeEventIterators - 1
        /\ (lastOp'.op \in {"events.next", "events.poll"} /\ lastOp'.id = j
                /\ esig[j] = "aborted") =>
               /\ epc'[j] = "done"
               /\ activeEventIterators' = activeEventIterators - 1
        /\ (esig[j] = "aborted" /\ ~(lastOp'.op = "events.start" /\ lastOp'.id = j)) =>
               /\ eout'[j] = eout[j]
               /\ epc'[j] \in {epc[j], "done"}

C24_AbortEndsEvents == [][C24_EventsStep]_vars

\* ------------------------------------------------------------------ C25
\* C25: sendMessages / receiveMessages pass the items of their input to send /
\* receive one by one, in order; once the signal is aborted no further item is
\* passed and the call completes normally, also when the input raises; an
\* exception of the input rejects the call exactly when the signal is not
\* aborted at that moment; an input that ends resolves it.
C25_InOrder ==
    /\ Len(pump.passed) = pump.pos /\ pump.pos <= pump.len
    /\ \A k \in 1..Len(pump.passed) : pump.passed[k] = Item(pump, k)

C25_Turn ==
    (pump.status = "running" /\ pump'.signal = pump.signal /\ pump' # pump) =>
        IF pump.signal = "aborted"
        THEN pump'.status = "resolved" /\ pump'.passed = pump.passed
        ELSE IF pump.pos < pump.len
        THEN /\ pump'.passed = Append(pump.passed, Item(pump, pump.pos + 1))
             /\ lastOp' = Op(IF pump.kind = "send" THEN "send" ELSE "receive", 0,
                             Item(pump, pump.pos + 1))
             /\ pump'.status = IF threw' THEN "rejected" ELSE "running"
        ELSE /\ pump'.passed = pump.passed
             /\ pump'.status = IF pump.raises THEN "rejected" ELSE "resolved"

C25_Settled == pump.status \in {"resolved", "rejected"} => pump' = pump

C25_PumpInOrderUntilAbort == []C25_InOrder /\ [][C25_Turn /\ C25_Settled]_vars

\* The input raised after the signal was aborted in mid-sequence: one item
\* passed, the call resolved.
C25_Witness ==
    /\ pump.status = "resolved" /\ pump.signal = "aborted"
    /\ pump.raises /\ pump.pos = pump.len
    /\ Len(pump.passed) = 1

\* The input raised with a live signal: the call is rejected after two items.
C25_Rejected ==
    /\ pump.status = "rejected" /\ pump.signal = "live"
    /\ pump.raises /\ Len(pump.passed) = 2 /\ ~threw

\* The signal was aborted with an item still to come: the call resolved
\* without passing it.
C25_Stopped ==
    /\ pump.status = "resolved" /\ pump.signal = "aborted"
    /\ pump.pos < pump.len /\ Len(pump.passed) = 1

\* ------------------------------------------------------------------ C26
\* C26: messages() generators that share messageBuffer never yield the same
\* payload twice, to the same generator or to two of them: a generator that
\* yields takes the head of the buffer (or the payload that has just woken it)
\* and removes it, so that each generator yields its payloads in the order
\* they were buffered.  (The payloads of a run are distinct.)
YieldsNow(i) == mpc'[i] = "yielded" /\ (mpc[i] # "yielded" \/ lastOp' = Op("messages.next", i, ""))

FrameNo(item) == CHOOSE n \in 1..Len(Frames) : parseMessage(Frames[n]) = item

C26_Yield ==
    \A i \in Iters : YieldsNow(i) =>
        /\ \A raw \in mhist.given : parseMessage(raw) # mout'[i]
        /\ \A j \in Iters \ {i} : YieldsNow(j) => mout'[j] # mout'[i]
        /\ IF messageBuffer # <<>>
           THEN mout'[i] = parseMessage(Head(messageBuffer))
           ELSE lastOp'.op = "receive" /\ mout'[i] = parseMessage(lastOp'.arg)
        /\ \A n \in 1..Len(messageBuffer') : parseMessage(messageBuffer'[n]) # mout'[i]
        /\ (mout[i] # Undefined /\ lastOp'.op # "messages.start") =>
               FrameNo(mout'[i]) > FrameNo(mout[i])

C26_NotBuffered ==
    \A n \in 1..Len(messageBuffer) : messageBuffer[n] \notin mhist.given

C26_EachPayloadToOneConsumer == []C26_NotBuffered /\ [][C26_Yield]_vars

\* Two generators are active and each has yielded: the payload that woke the
\* first of them and, later, another one.
C26_Witness ==
    /\ activeMessageIterators = 2
    /\ mpc[1] = "yielded" /\ mpc[2] = "yielded"
    /\ mout[1] # mout[2]
    /\ Cardinality(mhist.given) >= 3
    /\ messageBuffer # <<>>

\* ------------------------------------------------------------------ C27
\* C27: a step that arms the retry timer emits, last, one reconnect event with
\* attempt = reconnectCount + 1 and an interval, and no step emits such an
\* event otherwise; the timer callback increments reconnectCount, then emits,
\* first, one reconnect event with attempt = the new reconnectCount and no
\* interval, then constructs the transport, and nothing else emits such an
\* event; the attempt of that event has been announced by an earlier
\* scheduling event; and the timer that fires is the one still pending, never
\* one that was cleared.
InProgress(events) ==
    SelectSeq(events, LAMBDA e : e.type = "reconnect" /\ ~e.meta.hasInterval)

Scheduled(events) ==
    SelectSeq(events, LAMBDA e : e.type = "reconnect" /\ e.meta.hasInterval)

C27_Schedule ==
    IF timerSeq' # timerSeq
    THEN /\ timerSeq' = timerSeq + 1
         /\ Scheduled(emitted') = <<reconnectEvent(reconnectCount' + 1, TRUE)>>
         /\ emitted'[Len(emitted')] = reconnectEvent(reconnectCount' + 1, TRUE)
         /\ timers' = {timerSeq'} /\ reconnectTimer' = timerSeq'
    ELSE Scheduled(emitted') = <<>>

C27_Fire ==
    IF lastOp'.op = "timer"
    THEN /\ lastOp'.id \in timers /\ lastOp'.id = reconnectTimer
         /\ reconnectCount' = reconnectCount + 1
         /\ InProgress(emitted') = <<reconnectEvent(reconnectCount', FALSE)>>
         /\ Head(emitted') = reconnectEvent(reconnectCount', FALSE)
         /\ ctorCalls' = ctorCalls + 1
         /\ \E t \in 1..Len(hist.announced) : hist.announced[t] = reconnectCount'
    ELSE InProgress(emitted') = <<>>

C27_Pending == timers \subseteq {reconnectTimer} /\ Len(hist.announced) = timerSeq

C27_TwoEventsPerRetry == []C27_Pending /\ [][C27_Schedule /\ C27_Fire]_vars

\* The first retry has just failed to construct a transport and armed the
\* second timer: attempt 1 in progress, attempt 2 announced.
C27_Witness ==
    /\ lastOp.op = "timer"
    /\ reconnectCount = 1
    /\ emitted = <<reconnectEvent(1, FALSE), createEvent("error", NoMeta),
                   reconnectEvent(2, TRUE)>>
    /\ hist.announced = <<1, 2>>

\* ------------------------------------------------------------------ C28
\* C28: the error hook of a transport emits one error event and nothing else:
\* reconnectCount, the timer and its handle, state.ws, the transports and the
\* number of constructor calls are as before.  A retry timer is armed only by
\* a close hook or by a connect() whose constructor threw.
C28_Error ==
    lastOp'.op = "error" =>
        /\ emitted' = <<createEvent("error", NoMeta)>>
        /\ ~threw'
        /\ UNCHANGED <<connVars, abortVars, messageQueue, messageBuffer>>

C28_Armed ==
    timerSeq' # timerSeq =>
        \/ lastOp'.op = "close"
        \/ lastOp'.op \in {"connect", "timer"} /\ lastOp'.arg = "throws"

C28_ErrorHookOnlyEmits == [][C28_Error /\ C28_Armed]_vars

\* An error hook has just run with a retry pending and retries used: the
\* timer is still pending.
C28_Witness ==
    /\ lastOp.op = "error"
    /\ timers # {} /\ reconnectTimer \in timers
    /\ ws # 0 /\ socks[ws].readyState = CONNECTING

\* An error hook has just run on the current transport, connecting after one
\* retry: nothing is scheduled until its close hook runs.
C28_NoRetryYet ==
    /\ lastOp.op = "error"
    /\ reconnectCount = 1 /\ timers = {}
    /\ ws = lastOp.id /\ socks[ws].readyState = CONNECTING
    /\ opts.enabled /\ opts.attempts = MaxAttempts /\ ~isManualClose

\* ------------------------------------------------------------------ C29
\* C29: a connect() whose constructor throws, called by the user, by the
\* timer callback or by createSocket, does not raise: it emits exactly one
\* error event, leaves state.ws and the transports as they were and, exactly
\* when reconnect is enabled and reconnectCount < attempts, schedules a retry
\* (the next attempt is announced and one timer is pending); otherwise no
\* timer is pending afterwards.
C29_Throws ==
    (lastOp'.op \in {"connect", "timer"} /\ lastOp'.arg = "throws") =>
        /\ ~threw'
        /\ OfType(emitted', "error") = <<createEvent("error", NoMeta)>>
        /\ UNCHANGED <<ws, socks, isManualClose>>
        /\ ctorCalls' = ctorCalls + 1
        /\ IF opts.enabled /\ reconnectCount' < opts.attempts
           THEN /\ timerSeq' = timerSeq + 1
                /\ timers' = {timerSeq'} /\ reconnectTimer' = timerSeq'
                /\ emitted'[Len(emitted')] = reconnectEvent(reconnectCount' + 1, TRUE)
           ELSE /\ timerSeq' = timerSeq
                /\ timers' = {}
                /\ emitted'[Len(emitted')] = createEvent("error", NoMeta)

C29_Created ==
    lastOp = Op("createSocket", 0, "throws") =>
        /\ ~threw /\ ws = 0 /\ socks = <<>>
        /\ emitted = IF opts.enabled /\ 0 < opts.attempts
                     THEN <<createEvent("error", NoMeta), reconnectEvent(1, TRUE)>>
                     ELSE <<createEvent("error", NoMeta)>>
        /\ timers = IF opts.enabled /\ 0 < opts.attempts THEN {1} ELSE {}

C29_Exhausted ==
    /\ lastOp.op = "timer" /\ lastOp.arg = "throws"
    /\ opts.enabled /\ reconnectCount = opts.attempts
    /\ emitted = <<reconnectEvent(reconnectCount, FALSE), createEvent("error", NoMeta)>>
    /\ timers = {}

\* ------------------------------------------------------------------ C30
\* C30: with reconnect enabled, attempts = N and no transport ever opening,
\* the constructor is never called more than 1 + N times and eventually it
\* has been called exactly 1 + N times, every transport is closed and no
\* timer is pending, for good; from the (1 + N)-th call on no timer is
\* pending and every event emitted is an error or a close event: no
\* reconnect event and no event that announces the end of the retries.
Exhausted == ctorCalls = opts.attempts + 1

C30_AtMost ==
    opts.enabled =>
        /\ ctorCalls <= opts.attempts + 1
        /\ Exhausted => timers = {} /\ reconnectCount = opts.attempts

C30_Silent ==
    (opts.enabled /\ Exhausted') =>
        /\ OfType(emitted', "reconnect") =
               IF Exhausted THEN <<>> ELSE <<reconnectEvent(opts.attempts, FALSE)>>
        /\ \A k \in 1..Len(emitted') : emitted'[k].type \in {"reconnect", "error", "close"}
        /\ Exhausted => UNCHANGED <<ctorCalls, reconnectCount, timers, timerSeq, ws>>

C30_Stopped ==
    /\ Exhausted
    /\ timers = {}
    /\ \A i \in 1..Len(socks) : socks[i].readyState = CLOSED

C30_RetriesEnd ==
    /\ []C30_AtMost
    /\ [][C30_Silent]_vars
    /\ (opts.enabled => <>[]C30_Stopped)

\* Two retries were allowed: the constructor has been called three times, the
\* first call threw, the last transport has closed and nothing is pending.
C30_Witness ==
    /\ opts.enabled /\ opts.attempts = MaxAttempts
    /\ C30_Stopped
    /\ hist.ctorThrew /\ hist.closures > 0
    /\ lastOp.op = "close"
    /\ emitted = <<createEvent("close", [NoMeta EXCEPT !.code = 1006, !.reason = "", !.wasClean = FALSE])>>

\* ------------------------------------------------------------------ C31
\* C31: for every reconnect count, strategy and value of Math.random() the
\* delay d computed satisfies 0 <= d <= maxInterval; when the jitter is zero
\* d is min(interval * 2^attempt, maxInterval) under exponential and
\* min(interval * (attempt + 1), maxInterval) under linear backoff, and it is
\* not larger than the delay without jitter of any later attempt.
Called == calc.backoff # "none"
ZeroJitter == JitterSteps

\* min(base * 2^attempt, cap) and min(base * (attempt + 1), cap) in ms, as
\* integers: base * 2^attempt exceeds every cap explored from PowOverflow on.
Expected(attempt, base, backoff, cap) ==
    IF backoff = "linear" THEN IF base * (attempt + 1) < cap THEN base * (attempt + 1) ELSE cap
    ELSE IF base = 0 THEN 0
    ELSE IF attempt >= PowOverflow THEN cap
    ELSE IF base * (2 ^ attempt) < cap THEN base * (2 ^ attempt) ELSE cap

C31_InRange ==
    Called => Leq(Number(0), calc.interval) /\ Leq(calc.interval, Number(calc.cap))

C31_Exact ==
    (Called /\ calc.random = ZeroJitter) =>
        calc.interval = Number(Expected(calc.attempt, calc.base, calc.backoff, calc.cap))

C31_Monotone ==
    (Called /\ calc.random = ZeroJitter) =>
        \A later \in Attempts :
            later > calc.attempt =>
                Leq(calc.interval,
                    calculateReconnectInterval(later, Number(calc.base), calc.backoff,
                                               Number(calc.cap), ZeroJitter))

C31_DelayWithinCap == C31_InRange /\ C31_Exact /\ C31_Monotone

\* The same for the reconnect counts below the overflow of Math.pow.
C31_BelowOverflow ==
    (Called /\ (calc.backoff = "linear" \/ calc.attempt < PowOverflow)) =>
        /\ C31_InRange
        /\ C31_Exact
        /\ calc.random = ZeroJitter =>
               \A later \in Attempts :
                   (later > calc.attempt /\ (calc.backoff = "linear" \/ later < PowOverflow)) =>
                       Leq(calc.interval,
                           calculateReconnectInterval(later, Number(calc.base), calc.backoff,
                                                      Number(calc.cap), ZeroJitter))

\* The delay of the 1024th retry under exponential backoff is NaN.
C31_NotANumber ==
    /\ Called /\ calc.backoff = "exponential" /\ calc.attempt = PowOverflow
    /\ calc.base > 0 /\ calc.random < ZeroJitter
    /\ calc.interval = NaN

\* A jittered delay cut by the cap, and one the jitter makes smaller.
C31_Capped ==
    /\ Called /\ calc.attempt < PowOverflow /\ calc.random > ZeroJitter
    /\ calc.interval = Number(calc.cap) /\ calc.cap > 0
    /\ calc.base * (2 ^ calc.attempt) = calc.cap /\ calc.backoff = "exponential"

\* ------------------------------------------------------------------ C32
\* C32: with one messages() generator whose consumer keeps pulling and never
\* leaves, the payloads yielded so far followed by the payloads in
\* messageBuffer are, in order, the payloads pushed to the buffer less those
\* drop_oldest shifted out (so each is yielded at most once, in arrival
\* order), and every payload in the buffer is eventually yielded or shifted
\* out by drop_oldest.
Kept == SelectSeq(mhist.appended, LAMBDA p : p \notin mhist.evicted)

C32_Fifo == mhist.yields \o messageBuffer = Kept

C32_Once ==
    \A m, n \in 1..Len(mhist.yields) : mhist.yields[m] = mhist.yields[n] => m = n

C32_Eventually ==
    \A p \in Payloads :
        (\E n \in 1..Len(messageBuffer) : messageBuffer[n] = p)
            ~> (p \in mhist.evicted \/ \E n \in 1..Len(mhist.yields) : mhist.yields[n] = p)

C32_EveryPayloadYieldedInOrder == []C32_Fifo /\ []C32_Once /\ C32_Eventually

\* Three payloads were yielded in arrival order, the second after waiting in
\* the buffer behind the first, and one was shifted out in between.
C32_Witness ==
    /\ Len(mhist.yields) >= 3
    /\ mhist.evicted # {}
    /\ messageBuffer = <<>>
    /\ mhist.yields = Kept
    /\ lastOp.op = "messages.next"

\* ------------------------------------------------------------------ C33
\* C33: an events() generator started while none is active finds at most
\* MAX_RECENT_EVENTS events in eventQueue, and as long as it is the only one
\* the events it has yielded followed by eventQueue are the events that were
\* in eventQueue when it started followed by the events emitted since, in
\* emission order.
Alone == ehist.alone /\ activeEventIterators = 1

C33_Order == Alone => ehist.yields \o eventQueue = ehist.snapshot \o ehist.later

C33_Retained == ehist.alone => Len(ehist.snapshot) <= MAX_RECENT_EVENTS

C33_RecentHistoryFirst == C33_Order /\ C33_Retained

\* The same for the copy of generators.ts built on waitForItems.
C33_WithWaitForItems == opts.generators = "waitForItems" => C33_RecentHistoryFirst

\* The order alone, for either copy.
C33_HistoryThenLater == []C33_Order

\* A generator started alone has yielded the events retained at its start
\* and then one emitted later.
C33_Drained ==
    /\ Alone
    /\ ehist.snapshot # <<>> /\ ehist.later # <<>>
    /\ Len(ehist.yields) > Len(ehist.snapshot)

\* A generator of the polling copy started with more than MAX_RECENT_EVENTS
\* events in eventQueue.
C33_Overlong ==
    /\ Alone /\ opts.generators = "polling"
    /\ Len(ehist.snapshot) > MAX_RECENT_EVENTS

\* ------------------------------------------------------------------ C34
\* C34: a generator created with a signal that is blocked in waitForItems has
\* its resolver in the Set of resolvers and its collection (messageBuffer,
\* eventQueue) is empty; a push to the collection leaves no resolver that was
\* in the Set before it: every one was invoked, and a generator blocked again
\* afterwards has registered a new one behind the others.
BlockedMsg(i) == mpc[i] = "waiting" /\ msig[i] = "live"
BlockedEv(j) == epc[j] = "waiting" /\ esig[j] = "live"
InSeq(x, seq) == \E n \in 1..Len(seq) : seq[n] = x

C34_Blocked ==
    /\ \A i \in Iters : BlockedMsg(i) => messageBuffer = <<>> /\ InSeq(i, messageResolvers)
    /\ \A j \in Iters : BlockedEv(j) => eventQueue = <<>> /\ InSeq(j, eventResolvers)

C34_Push ==
    /\ Len(mhist'.appended) > Len(mhist.appended) =>
           \A i \in Iters :
               BlockedMsg(i) =>
                   \/ mpc'[i] = "yielded"
                   \/ mpc'[i] = "waiting" /\ messageBuffer' = <<>>
                          /\ Len(mhist'.yields) > Len(mhist.yields)
    /\ (emitted' # <<>> /\ activeEventIterators > 0) =>
           /\ esync'.invoked = eventResolvers /\ esync'.res = <<>>
           /\ \A j \in Iters :
                  BlockedEv(j) =>
                      \/ epc'[j] = "yielded"
                      \/ epc'[j] = "waiting" /\ eventQueue' = <<>>

C34_NoLostWakeup == []C34_Blocked /\ [][C34_Push]_vars

\* A frame has just woken two blocked messages() generators: the first took
\* the payload, the second found the buffer empty and blocked again; the
\* received event woke a blocked events() generator.
C34_Witness ==
    /\ lastOp.op = "receive"
    /\ mpc[1] = "yielded" /\ msig[1] = "live"
    /\ BlockedMsg(2) /\ messageResolvers = <<2>>
    /\ epc[1] = "yielded" /\ esig[1] = "live"
    /\ Len(mhist.yields) > 1

\* ------------------------------------------------------------------ C35
\* C35: at most one transport constructed by connect() is live (constructed
\* and not closed) at any time.
LiveSockets == {i \in 1..Len(socks) : socks[i].readyState # CLOSED}

C35_OneLiveTransport == Cardinality(LiveSockets) <= 1

\* connect() called by the user while the transport is open: the old
\* transport stays open next to the new one.
C35_SecondByConnect ==
    /\ lastOp.op = "connect" /\ lastOp.arg = ""
    /\ Cardinality(LiveSockets) > 1
    /\ \E i \in LiveSockets : i # ws /\ socks[i].readyState = OPEN

\* A retry timer armed before a connect() of the user fires after it.
C35_SecondByTimer ==
    /\ lastOp.op = "timer" /\ lastOp.arg = ""
    /\ hist.userConnects > 0
    /\ Cardinality(LiveSockets) > 1

\* -------------------------------------------- callbacks that call back
\* Event callbacks that call send() when handed the open event, or close()
\* when handed the reconnect event of a firing retry timer.
InitReentry ==
    \E o \in Options, throws \in BOOLEAN :
        /\ o.enabled /\ o.attempts = 1
        /\ o.recvSize = 1 /\ o.recvPolicy = "oldest"
        /\ o.sendSize = MaxCap /\ o.sendPolicy = "oldest"
        /\ \E c \in Callbacks, on \in {"none", "open", "reconnect"},
              l \in {Limits(2, 0, 0, MaxSend - 1, 0, 0), Limits(MaxConn + 2, MaxConn, 0, 1, 0, 0)} :
              InitWith(o, [l EXCEPT !.ecb = MaxCb, !.cb = c, !.on = on], throws)

NextReentry ==
    \/ \E c \in Callbacks : OnEvent(c)
    \/ Send(Out(nSend))
    \/ Connect(FALSE)
    \/ \E t \in TimerIds, throws \in BOOLEAN : TimerFire(t, throws)
    \/ \E i \in 1..MaxCtor : WsOpen(i)
    \/ \E i \in 1..MaxCtor : WsClose(i)
    \/ Close([code |-> -1, reason |-> Undefined])

SpecReentry == InitReentry /\ [][NextReentry]_vars

\* ------------------------------------------------------------------ C36
\* The position of a payload in the order of the send() calls.
CallOrder(m) == CHOOSE k \in 1..Len(Outgoing) : Outgoing[k] = m

InCallOrder(sent) ==
    \A a, b \in 1..Len(sent) : a < b => CallOrder(sent[a]) < CallOrder(sent[b])

\* C36: every transport is handed the payloads in the order of their send()
\* calls, a send() made by an event callback during the open emission
\* included.
C36_SendOrder == \A i \in 1..Len(socks) : InCallOrder(socks[i].sent)

\* Without a callback that sends during the open emission the order holds.
C36_OrderWithoutCallback == lim.on # "open" => C36_SendOrder

\* msg1 was queued while connecting; the callback handed the open event
\* sent msg2, which reached the transport before the flush of msg1.
C36_CallbackOvertakes ==
    /\ lastOp.op = "open"
    /\ Reenters("open")
    /\ socks[ws].sent = <<"msg2", "msg1">>
    /\ messageQueue = <<>>

\* ------------------------------------------------------------------ C37
\* close() has been called and the user has not called connect() since.
ClosedForGood == hist.closeCtor >= 0 /\ ~hist.connectAfterClose

\* C37: no step that ends with close() called, and no connect() by the user
\* after it, constructs a transport; close() called by an event callback
\* while a retry timer fires included.
C37_NoTransportAfterClose ==
    [][ClosedForGood' => Len(socks') = Len(socks)]_vars

\* Without a callback that closes during the emission of a firing timer no
\* transport follows close().
C37_ClosedWithoutCallback ==
    [][(lim.on # "reconnect" /\ ClosedForGood') => Len(socks') = Len(socks)]_vars

\* The retry timer fired, the callback handed its reconnect event called
\* close(), and the timer went on to construct a transport, now connecting
\* with close() in force.
C37_TransportAfterClose ==
    /\ lastOp.op = "timer" /\ lastOp.arg = ""
    /\ Reenters("reconnect")
    /\ ClosedForGood /\ isManualClose
    /\ ws = Len(socks) /\ socks[ws].readyState = CONNECTING
    /\ timers = {} /\ reconnectTimer = 0

\* ------------------------------------------------------------------ C38
\* The step leaves messageQueue alone or only appends to it.
Retained ==
    /\ Len(messageQueue') >= Len(messageQueue)
    /\ SubSeq(messageQueue', 1, Len(messageQueue)) = messageQueue

\* The step emptied messageQueue by flushing: every payload was handed to the
\* transport, in order, with a sent event each.
Transmitted ==
    /\ lastOp'.op = "open" /\ ws # 0
    /\ messageQueue' = <<>>
    /\ socks'[ws].sent = socks[ws].sent \o messageQueue
    /\ OfType(emitted', "sent") = sentEvents(messageQueue)

\* The step evicted the oldest payload for a new one, with a dropped event
\* carrying the evicted payload.
Evicted ==
    /\ lastOp'.op = "send" /\ opts.sendPolicy = "oldest" /\ messageQueue # <<>>
    /\ Len(messageQueue') = Len(messageQueue)
    /\ SubSeq(messageQueue', 1, Len(messageQueue) - 1) = Tail(messageQueue)
    /\ emitted' = <<createDroppedEvent("send_queue_full", "oldest", Head(messageQueue),
                                       opts.sendSize, "send")>>

\* The step was close(), which clears the queue.
Cleared == lastOp'.op = "user.close" /\ messageQueue' = <<>>

\* C38: a payload leaves messageQueue only by being transmitted by the flush
\* (with a sent event), by oldest eviction (with a dropped event carrying
\* it) or by close(); the flush removes no payload, the empty string
\* included, without transmitting it.
C38_Conservation == [][Retained \/ Transmitted \/ Evicted \/ Cleared]_vars

\* The same when no queued payload is the empty string.
C38_NonEmptyConserved ==
    [][(\A k \in 1..Len(messageQueue) : messageQueue[k] # "") =>
          (Retained \/ Transmitted \/ Evicted \/ Cleared)]_vars

\* The flush removed a queued empty string and transmitted nothing.
C38_EmptyStringLost ==
    /\ lastOp.op = "open" /\ ws = lastOp.id
    /\ messageQueue = <<>>
    /\ socks[ws].sent = <<>>
    /\ emitted = <<createEvent("open", NoMeta)>>
    /\ nSend = 1 /\ opts.sendSize >= 1 /\ hist.closeCtor < 0

\* A payload was evicted for a newer one.
C38_EvictedOldest ==
    /\ lastOp.op = "send" /\ opts.sendPolicy = "oldest"
    /\ OfType(emitted, "dropped") # <<>>
    /\ messageQueue = <<lastOp.arg>>

\* ------------------------------------------------------------------ C39
\* The last n elements of a sequence (all of it when it is shorter).
Last(seq, n) == SubSeq(seq, IF Len(seq) > n THEN Len(seq) - n + 1 ELSE 1, Len(seq))

Shorter(a, b) == IF Len(a) < Len(b) THEN Len(a) ELSE Len(b)

\* C39: the events of a step reach every registered event callback in the
\* order of their emit() calls, and they stand in eventQueue in that order,
\* also when a callback causes an emission by calling send() or close().
C39_EmissionOrder ==
    /\ \A c \in Registered(eventCallbacks) : ecbGot[c] = emitted
    /\ LET n == Shorter(emitted, esync.queue)
       IN  Last(esync.queue, n) = Last(emitted, n)

\* Without a callback that sends during the open emission the order holds.
C39_OrderWithoutCallback == lim.on # "open" => C39_EmissionOrder

\* Callback 1 sent a payload when handed the open event: callback 2,
\* registered after it, was handed the sent event before the open event,
\* and eventQueue holds them in that order.
C39_SentBeforeOpen ==
    /\ lastOp.op = "open"
    /\ lim.cb = 1 /\ Reenters("open")
    /\ eventCallbacks = <<1, 2>>
    /\ Len(emitted) = 2 /\ emitted[1].type = "open" /\ emitted[2].type = "sent"
    /\ ecbGot[1] = emitted
    /\ ecbGot[2] = <<emitted[2], emitted[1]>>
    /\ Last(eventQueue, 2) = <<emitted[2], emitted[1]>>

\* --------------------------------------------- both kinds of generators
\* One open transport, one inbound frame, up to MaxIter messages() and
\* MaxIter events() generators at a time, with or without a signal, started,
\* pulled, left early and aborted in any order.
InitCount ==
    \E o \in Options :
        /\ ~o.enabled /\ o.attempts = 0
        /\ o.recvSize = 1 /\ o.recvPolicy = "oldest"
        /\ o.sendSize = 1 /\ o.sendPolicy = "oldest"
        /\ InitWith(o, [Limits(1, 0, 1, 0, 0, MaxIter) EXCEPT
                            !.starts = MaxIter, !.eiter = MaxIter,
                            !.estarts = MaxIter], FALSE)

NextCount ==
    \/ \E i \in 1..MaxCtor : WsOpen(i)
    \/ \E i \in 1..MaxCtor : WsMessage(i, Frame(nRecv))
    \/ \E i \in Iters, sig \in {"none", "live", "aborted"} : MsgStart(i, sig)
    \/ \E i \in Iters : MsgNext(i)
    \/ \E i \in Iters : MsgReturn(i)
    \/ \E i \in Iters : MsgAbort(i)
    \/ \E j \in Iters, sig \in {"none", "live", "aborted"} : EvStart(j, sig)
    \/ \E j \in Iters : EvNext(j)
    \/ \E j \in Iters : EvReturn(j)
    \/ \E j \in Iters : EvAbort(j)

SpecCount == InitCount /\ [][NextCount]_vars

\* ------------------------------------------------------------------ C40
\* The generators whose body has started and has not left through finally.
Running(pc) == {i \in Iters : pc[i] \in {"yielded", "waiting"}}

\* C40: activeMessageIterators and activeEventIterators equal the number of
\* messages() and events() generators that have started and not ended, and
\* are never negative.
C40_Count ==
    /\ activeMessageIterators = Cardinality(Running(mpc))
    /\ activeEventIterators = Cardinality(Running(epc))
    /\ activeMessageIterators >= 0 /\ activeEventIterators >= 0

\* A generator that starts adds one unless its signal is aborted already
\* (it then leaves at once); one that leaves, by return() or by its aborted
\* signal, takes one away; nothing else changes the counts.
C40_Step ==
    /\ lastOp'.op = "messages.start" =>
           activeMessageIterators' = activeMessageIterators
                                     + (IF lastOp'.arg = "aborted" THEN 0 ELSE 1)
    /\ lastOp'.op = "events.start" =>
           activeEventIterators' = activeEventIterators
                                   + (IF lastOp'.arg = "aborted" THEN 0 ELSE 1)
    /\ lastOp'.op = "messages.return" => activeMessageIterators' = activeMessageIterators - 1
    /\ lastOp'.op = "events.return" => activeEventIterators' = activeEventIterators - 1
    /\ lastOp'.op \in {"open", "receive"} =>
           /\ activeMessageIterators' = activeMessageIterators
           /\ activeEventIterators' = activeEventIterators

C40_ActiveCounters == []C40_Count /\ [][C40_Step]_vars

\* Of two messages() generators one has ended by return() and one is
\* running; of two events() generators one has ended by its aborted signal
\* and one is running.
C40_Witness ==
    /\ mhist.starts = MaxIter /\ ehist.starts = MaxIter
    /\ activeMessageIterators = 1 /\ Cardinality(Running(mpc)) = 1
    /\ \E i \in Iters : mpc[i] = "done" /\ msig[i] # "aborted"
    /\ activeEventIterators = 1 /\ Cardinality(Running(epc)) = 1
    /\ \E j \in Iters : epc[j] = "done" /\ esig[j] = "aborted"

====
